---- MODULE Spec2Model ----
(***************************************************************************)
(* Clause extraction pipeline of backend/contracts/clause_extractor.py.    *)
(*                                                                         *)
(* Documents are character strings.  Positions are 0-based offsets, as in  *)
(* the Python source; Slice(s, a, b) is the Python slice s[a:b].  Regular  *)
(* expressions of the source are kept as data (sequences of items) and are *)
(* run by a backtracking matcher with the semantics of Python's re module  *)
(* on the characters the documents of the model use.                       *)
(***************************************************************************)
EXTENDS Integers, Sequences, FiniteSets, TLC

(***************************************************************************)
(* Python values                                                           *)
(***************************************************************************)

\* Python's None where the code stores None or a string (article, summary,
\* contract_text).  No document and no article number equals it.
None == "<None>"

\* an argument that is not a str: a bytes object, on which a str pattern
\* cannot be used (line 444 raises TypeError)
Bytes == "<bytes>"

\* A faulty variant of Truthy: the guard x != "" lets None through.
NonEmpty(x) == x # ""

\* bool(x) for x a string or None.
Truthy(x) == x # None /\ x # ""

SetMin(S) == CHOOSE x \in S : \A y \in S : x <= y

Min2(a, b) == IF a <= b THEN a ELSE b

Max2(a, b) == IF a >= b THEN a ELSE b

\* the least q in lo..hi with P(q), and hi + 1 when there is none
First(lo, hi, P(_)) ==
  IF lo > hi THEN hi + 1
  ELSE CHOOSE q \in lo..(hi + 1) :
         (q = hi + 1 \/ P(q)) /\ \A r \in lo..(q - 1) : ~P(r)

\* the greatest q in lo..hi with P(q), and lo - 1 when there is none
Last(lo, hi, P(_)) ==
  IF lo > hi THEN lo - 1
  ELSE hi - First(0, hi - lo, LAMBDA k : P(hi - k))

\* s[a:b] for a, b >= 0
Slice(s, a, b) ==
  LET hi == Min2(b, Len(s))
  IN  IF a >= hi THEN "" ELSE SubSeq(s, a + 1, hi)

\* s[i] for 0 <= i < len(s)
At(s, i) == SubSeq(s, i + 1, i + 1)

UpperChars == {"A","B","C","D","E","F","G","H","I","J","K","L","M",
               "N","O","P","Q","R","S","T","U","V","W","X","Y","Z"}

LowerChars == {"a","b","c","d","e","f","g","h","i","j","k","l","m",
               "n","o","p","q","r","s","t","u","v","w","x","y","z"}

DigitChars == {"0","1","2","3","4","5","6","7","8","9"}

SpaceChars == {" ", "\n", "\t", "\r"}

ToLower == ("A" :> "a") @@ ("B" :> "b") @@ ("C" :> "c") @@ ("D" :> "d") @@
           ("E" :> "e") @@ ("F" :> "f") @@ ("G" :> "g") @@ ("H" :> "h") @@
           ("I" :> "i") @@ ("J" :> "j") @@ ("K" :> "k") @@ ("L" :> "l") @@
           ("M" :> "m") @@ ("N" :> "n") @@ ("O" :> "o") @@ ("P" :> "p") @@
           ("Q" :> "q") @@ ("R" :> "r") @@ ("S" :> "s") @@ ("T" :> "t") @@
           ("U" :> "u") @@ ("V" :> "v") @@ ("W" :> "w") @@ ("X" :> "x") @@
           ("Y" :> "y") @@ ("Z" :> "z")

WordChars == UpperChars \cup LowerChars \cup DigitChars \cup {"_"}

LetterWsChars == UpperChars \cup LowerChars \cup SpaceChars

IsUpper(c) == c \in UpperChars

IsDigit(c) == c \in DigitChars

IsSpace(c) == c \in SpaceChars

\* \w
IsWordChar(c) == c \in WordChars

\* str.lower()
RECURSIVE Lower(_)
Lower(s) ==
  IF Len(s) = 0 THEN ""
  ELSE IF Len(s) = 1 THEN (IF s \in UpperChars THEN ToLower[s] ELSE s)
  ELSE LET h == Len(s) \div 2
       IN  Lower(SubSeq(s, 1, h)) \o Lower(SubSeq(s, h + 1, Len(s)))

\* str.rfind(c) for a single character c: the last index, or -1
RFind(s, c) == Last(0, Len(s) - 1, LAMBDA i : At(s, i) = c)

(***************************************************************************)
(* Regular expressions (Python re).  A pattern is a sequence of items:     *)
(*   [t |-> "lit", s |-> str]          the characters of str               *)
(*   [t |-> "rep", c |-> class, lo, hi, lazy]   class{lo,hi}, greedy       *)
(*                                      unless lazy                        *)
(*   [t |-> "wb"]                      \b                                  *)
(*   [t |-> "bol"], [t |-> "eol"]      ^ and $ (no MULTILINE)              *)
(*   [t |-> "bolm"], [t |-> "eolm"]    ^ and $ under re.MULTILINE          *)
(*   [t |-> "alt", ps |-> <<p1, ..>>]  (?:p1|p2|..)                        *)
(*   [t |-> "nla", p |-> pattern]      (?!p)                               *)
(* With re.IGNORECASE the subject is lowered and the items are written in  *)
(* lower case.                                                             *)
(***************************************************************************)

Unbounded == 1000 * 1000

Lit(s) == [t |-> "lit", s |-> s]

Rep(c, lo, hi) == [t |-> "rep", c |-> c, lo |-> lo, hi |-> hi, lazy |-> FALSE]

RepLazy(c, lo, hi) == [t |-> "rep", c |-> c, lo |-> lo, hi |-> hi, lazy |-> TRUE]

DotStar == Rep("dot", 0, Unbounded)

Ws0 == Rep("space", 0, Unbounded)

Ws1 == Rep("space", 1, Unbounded)

D1 == Rep("digit", 1, Unbounded)

WB == [t |-> "wb"]

Bol == [t |-> "bol"]

Eol == [t |-> "eol"]

BolM == [t |-> "bolm"]

EolM == [t |-> "eolm"]

Alt(ps) == [t |-> "alt", ps |-> ps]

NotAhead(p) == [t |-> "nla", p |-> p]

InClass(c, cls) ==
  CASE cls = "dot"      -> c # "\n"
    [] cls = "all"      -> TRUE
    [] cls = "space"    -> IsSpace(c)
    [] cls = "digit"    -> IsDigit(c)
    [] cls = "word"     -> IsWordChar(c)
    [] cls = "upper"    -> IsUpper(c)
    [] cls = "letterws" -> c \in LetterWsChars
    [] cls = "dashws"   -> c = "-" \/ IsSpace(c)
    [] cls = "period"   -> c = "."
    [] cls = "s"        -> c = "s"
    [] cls = "blank"    -> c = " " \/ c = "\t"
    [] cls = "newline"  -> c = "\n"
    [] cls = "stop"     -> c \in {".", "!", "?"}
    [] cls = "currency" -> c = "$"
    [] cls = "commadigit" -> c = "," \/ IsDigit(c)
    [] cls = "slashdash" -> c = "/" \/ c = "-"
    [] cls = "quote"    -> c = "\""
    [] cls = "apostrophe" -> c = "'"
    [] cls = "letter"   -> c \in UpperChars \/ c \in LowerChars

\* the end of the longest run of at most hi characters of the class from pos
RunEnd(s, pos, cls, hi) ==
  LET last == Min2(pos + hi, Len(s))
  IN  IF pos >= last THEN pos
      ELSE First(pos, last - 1, LAMBDA q : ~InClass(At(s, q), cls))

\* \b at pos
WordBoundary(s, pos) ==
  LET before == pos > 0 /\ IsWordChar(At(s, pos - 1))
      after  == pos < Len(s) /\ IsWordChar(At(s, pos))
  IN  before # after

\* The end of the match of items k.. of pat that starts at pos, the one the
\* backtracking search of re finds first; -1 when there is none.
RECURSIVE MatchFrom(_, _, _, _)

\* items k+1.. from q, for q the end chosen for item k in lo..hi (none when
\* q lies outside)
MatchRest(s, pat, k, q, lo, hi) ==
  IF q < lo \/ q > hi THEN -1 ELSE MatchFrom(s, pat, k + 1, q)

\* class{lo,hi} at pos: the longest repetition after which the rest matches,
\* or the shortest one when lazy; far is the end of the longest run
MatchRep(s, pat, k, lazy, lo, far) ==
  MatchRest(s, pat, k,
            IF lazy THEN First(lo, far, LAMBDA r : MatchFrom(s, pat, k + 1, r) # -1)
                    ELSE Last(lo, far, LAMBDA r : MatchFrom(s, pat, k + 1, r) # -1),
            lo, far)

\* (?:p1|p2|..) at pos followed by rest: the first alternative i that lets
\* the rest match
MatchAlt(s, ps, rest, pos, i) ==
  IF i > Len(ps) THEN -1 ELSE MatchFrom(s, ps[i] \o rest, 1, pos)

\* the item e = pat[k] at pos
MatchItem(s, pat, k, pos, e) ==
  CASE e.t = "lit" ->
         IF pos + Len(e.s) <= Len(s) /\ SubSeq(s, pos + 1, pos + Len(e.s)) = e.s
         THEN MatchFrom(s, pat, k + 1, pos + Len(e.s))
         ELSE -1
    [] e.t = "wb" ->
         IF WordBoundary(s, pos) THEN MatchFrom(s, pat, k + 1, pos) ELSE -1
    [] e.t = "bol" ->
         IF pos = 0 THEN MatchFrom(s, pat, k + 1, pos) ELSE -1
    [] e.t = "eol" ->
         IF pos = Len(s) \/ (pos = Len(s) - 1 /\ At(s, pos) = "\n")
         THEN MatchFrom(s, pat, k + 1, pos)
         ELSE -1
    [] e.t = "bolm" ->
         IF pos = 0 \/ At(s, pos - 1) = "\n"
         THEN MatchFrom(s, pat, k + 1, pos)
         ELSE -1
    [] e.t = "eolm" ->
         IF pos = Len(s) \/ At(s, pos) = "\n"
         THEN MatchFrom(s, pat, k + 1, pos)
         ELSE -1
    [] e.t = "nla" ->
         IF MatchFrom(s, e.p, 1, pos) # -1 THEN -1
         ELSE MatchFrom(s, pat, k + 1, pos)
    [] e.t = "alt" ->
         MatchAlt(s, e.ps, SubSeq(pat, k + 1, Len(pat)), pos,
                  First(1, Len(e.ps),
                        LAMBDA i : MatchFrom(s, e.ps[i] \o SubSeq(pat, k + 1, Len(pat)), 1, pos) # -1))
    [] e.t = "rep" ->
         MatchRep(s, pat, k, e.lazy, pos + e.lo, RunEnd(s, pos, e.c, e.hi))

MatchFrom(s, pat, k, pos) ==
  IF k > Len(pat) THEN pos ELSE MatchItem(s, pat, k, pos, pat[k])

\* The pieces of one, two and three characters of s.  A set g that holds
\* them (and maybe more) tells that a literal cannot stand in s.
Grams(s) ==
  {SubSeq(s, p, p) : p \in 1..Len(s)}
    \cup {SubSeq(s, p, p + 1) : p \in 1..(Len(s) - 1)}
    \cup {SubSeq(s, p, p + 2) : p \in 1..(Len(s) - 2)}

Has(g, w) ==
  IF Len(w) >= 3 THEN SubSeq(w, 1, 3) \in g /\ SubSeq(w, Len(w) - 2, Len(w)) \in g
  ELSE w = "" \/ w \in g

\* Every match of the sequence pat holds every literal of pat, and those of
\* one of the alternatives of every alternation of pat.
RECURSIVE Possible(_, _)
Possible(g, pat) ==
  \A k \in 1..Len(pat) :
     CASE pat[k].t = "lit" -> Has(g, pat[k].s)
       [] pat[k].t = "alt" -> \E i \in 1..Len(pat[k].ps) : Possible(g, pat[k].ps[i])
       [] OTHER -> TRUE

\* The positions a match of pat can start at in s: 0 for a pattern that opens
\* with ^, and for one that opens (after \b) with a literal the positions at
\* which the literal stands.
Candidates(s, first, lead) ==
  IF first.t = "bol" THEN {0}
  ELSE IF lead.t = "lit"
  THEN {p \in 0..(Len(s) - Len(lead.s)) : SubSeq(s, p + 1, p + Len(lead.s)) = lead.s}
  ELSE 0..Len(s)

\* The positions at which a match of pat starts in s, whose pieces g holds.
Starts(s, g, pat) ==
  IF ~Possible(g, pat) THEN {}
  ELSE {p \in Candidates(s, pat[1],
                         pat[IF pat[1].t \in {"wb", "bolm"} /\ Len(pat) > 1 THEN 2 ELSE 1]) :
          MatchFrom(s, pat, 1, p) # -1}

\* the match that starts at p, or <<-1, -1>> when p is past n
MatchAt(s, pat, n, p) ==
  IF p > n THEN <<-1, -1>> ELSE <<p, MatchFrom(s, pat, 1, p)>>

\* re.search(pat, s): <<start, end>> of the leftmost match, or <<-1, -1>>
Search(s, g, pat) ==
  IF ~Possible(g, pat) THEN <<-1, -1>>
  ELSE MatchAt(s, pat, IF pat[1].t = "bol" THEN 0 ELSE Len(s),
               First(0, IF pat[1].t = "bol" THEN 0 ELSE Len(s),
                     LAMBDA q : MatchFrom(s, pat, 1, q) # -1))

\* bool(re.search(pat, s))
Found(s, g, pat) == Starts(s, g, pat) # {}

\* bool(re.search(p1|p2|.., s)) for a top-level alternation
FoundAny(s, g, pats) == \E i \in 1..Len(pats) : Found(s, g, pats[i])

\* re.finditer(pat, s): the non-overlapping matches, left to right, as
\* <<start, end>> pairs.  starts are the positions a match can start at.
RECURSIVE IterFrom(_, _, _, _)

\* the match <<p, e>> and the matches after it
IterNext(s, pat, starts, p, e) ==
  <<<<p, e>>>> \o IterFrom(s, pat, starts, IF e > p THEN e ELSE p + 1)

IterAt(s, pat, starts, p) == IterNext(s, pat, starts, p, MatchFrom(s, pat, 1, p))

IterFrom(s, pat, starts, from) ==
  IF \A p \in starts : p < from THEN <<>>
  ELSE IterAt(s, pat, starts, SetMin({p \in starts : p >= from}))

FindIter(s, g, pat) == IterFrom(s, pat, Starts(s, g, pat), 0)

\* re.sub(pat, repl, s) where the matches are searched in subject (s itself,
\* or s lowered for re.IGNORECASE) and replaced in s.
RECURSIVE SubFrom(_, _, _, _, _)
SubFrom(s, ms, i, from, repl) ==
  IF i > Len(ms) THEN Slice(s, from, Len(s))
  ELSE Slice(s, from, ms[i][1]) \o repl \o SubFrom(s, ms, i + 1, ms[i][2], repl)

\* A text o with its lower-case form l, on which the re.IGNORECASE searches
\* run, and a set g that holds the pieces of l.
Text(o, l) == [o |-> o, l |-> l, g |-> Grams(l)]

Both(s) == Text(s, Lower(s))

\* a slice of a text; the pieces of the text hold those of the slice
BSlice(tx, a, b) == [o |-> Slice(tx.o, a, b), l |-> Slice(tx.l, a, b), g |-> tx.g]

\* text.strip(): between the first and the last character that is no space
BStripped(tx, a, b) == IF a > b THEN BSlice(tx, 0, 0) ELSE BSlice(tx, a, b + 1)

BStrip(tx) ==
  BStripped(tx, First(0, Len(tx.o) - 1, LAMBDA i : ~IsSpace(At(tx.o, i))),
                Last(0, Len(tx.o) - 1, LAMBDA i : ~IsSpace(At(tx.o, i))))

\* the text with the matches ms replaced by repl; repl has no upper case
Replaced(tx, ms, repl) ==
  IF ms = <<>> THEN tx
  ELSE Text(SubFrom(tx.o, ms, 1, 0, repl), SubFrom(tx.l, ms, 1, 0, repl))

\* re.sub(pat, repl, text, flags=re.IGNORECASE); no pattern used here
\* matches the empty string
SubI(tx, pat, repl) ==
  IF tx.o = "" THEN tx ELSE Replaced(tx, FindIter(tx.l, tx.g, pat), repl)

\* re.sub(pat, repl, text); the literals of pat have no letters
SubS(tx, pat, repl) ==
  IF tx.o = "" THEN tx ELSE Replaced(tx, FindIter(tx.o, tx.g, pat), repl)

(***************************************************************************)
(* CLAUSE_PATTERNS: the catalog, in declaration order.  The model holds    *)
(* its first five entries (auto_renewal .. payment); every category is     *)
(* processed on its own (found_clauses is reset per category), so the      *)
(* groups of these five are the ones the full catalog yields for them.     *)
(* A keyword r'a.*b' is K2("a", "b").                                      *)
(***************************************************************************)

K1(a) == <<Lit(a)>>

K2(a, b) == <<Lit(a), DotStar, Lit(b)>>

K3(a, b, c) == <<Lit(a), DotStar, Lit(b), DotStar, Lit(c)>>

CLAUSE_PATTERNS == <<
  [type |-> "auto_renewal",
   keywords |-> << K2("auto", "renew"), K2("automatic", "renewal"),
                   K3("shall", "automatically", "renew"), K2("self", "renew"),
                   K1("evergreen"), K2("renew", "automatically") >>,
   description |-> "Auto-renewal clauses that automatically extend the contract",
   risk_level |-> "medium"],
  [type |-> "indemnity",
   keywords |-> << K1("indemnif"), K2("hold", "harmless"), K2("assume", "liability"),
                   K2("defend", "indemnif"), K1("indemnification") >>,
   description |-> "Indemnity clauses that transfer liability",
   risk_level |-> "high"],
  [type |-> "termination",
   keywords |-> << K1("terminat"), K1("cancel"), K1("expir"), K2("end", "contract"),
                   K2("breach", "terminat"), K2("early", "terminat") >>,
   description |-> "Termination and early termination clauses",
   risk_level |-> "medium"],
  [type |-> "confidentiality",
   keywords |-> << K1("confidential"), K2("non", "disclosure"), K1("nda"),
                   K2("proprietary", "information"), K2("trade", "secret") >>,
   description |-> "Confidentiality and non-disclosure clauses",
   risk_level |-> "low"],
  [type |-> "payment",
   keywords |-> << K2("payment", "term"), K1("invoice"), K2("due", "date"),
                   K2("late", "fee"), K2("payment", "schedule"),
                   K2("recurring", "payment"), K2("base", "rent"),
                   K2("monthly", "installment"), K2("rent", "payable"),
                   K2("annual", "rent"),
                   <<Lit("$"), Ws0, D1, DotStar, Lit("per")>>,
                   <<Lit("payment"), DotStar, Lit("of"), DotStar, Lit("$"), D1>>,
                   <<Lit("fee"), DotStar, Lit("of"), DotStar, Lit("$"), D1>>,
                   K1("compensation"), K1("reimbursement"), K2("cost", "sharing"),
                   K2("budget", "allocation"), K2("emi", "payment"),
                   K3("equated", "monthly", "installment"),
                   K2("installment", "payment"), K2("loan", "installment"),
                   K2("deviation", "charge"), K2("processing", "charge") >>,
   description |-> "Payment terms, fees, rent schedules, and financial obligations",
   risk_level |-> "low"]
>>

(***************************************************************************)
(* extract_clause_context                                                  *)
(***************************************************************************)

\* lines 448-459: the start of the snippet of a match at start_pos: after the
\* first '.', '!' or newline of the window, or before the first "article"
SentenceStart(tx, start_pos, context_chars) ==
  LET Boundary(i) == At(tx.o, i) \in {".", "!", "\n"}
      Stop(i) == Boundary(i) \/ (i > 0 /\ Slice(tx.l, i - 1, i + 6) = "article")
      i == First(Max2(0, start_pos - context_chars), start_pos - 1, Stop)
  IN  IF i > start_pos - 1 THEN start_pos
      ELSE IF Boundary(i) THEN i + 1 ELSE i - 1

\* section_header_patterns, lines 485-490 (re.IGNORECASE)
SectionHeaderPatterns == <<
  <<Rep("letterws", 5, 5), Lit(":")>>,
  <<Lit("special"), Ws1, Lit("terms")>>,
  <<Lit("pre"), Ws1, Lit("disbursment")>>,
  <<Lit("post"), Ws1, Lit("disbursment")>> >>

\* The matches <<start, end>> of the section headers that start in lo..hi
\* (for [A-Z\s]{5,}: the shortest one ending at each colon).
SectionHeaders(tx, lo, hi) ==
  UNION { IF ~Possible(tx.g, SectionHeaderPatterns[k]) THEN {}
          ELSE {<<p, MatchFrom(tx.l, SectionHeaderPatterns[k], 1, p)>> :
                  p \in {q \in lo..hi : MatchFrom(tx.l, SectionHeaderPatterns[k], 1, q) # -1}} :
          k \in 1..Len(SectionHeaderPatterns) }

\* lines 470-477: a numbered item starts at i
Numbered(text, i) ==
  /\ i < Len(text) - 2
  /\ IsDigit(At(text, i))
  /\ i > 0
  /\ At(text, i - 1) \in {".", ")", "\n"}
  /\ i + 1 < Len(text)
  /\ At(text, i + 1) \in {".", " "}

\* lines 483-500: re.search(p, text[i:i+40]) succeeds exactly when a match of
\* p lies within [i, i+40)
Header(text, i, end_pos, headers) ==
  /\ i < Len(text) - 20
  /\ i > end_pos + 30
  /\ \E m \in headers : m[1] >= i /\ m[2] <= i + 40

\* lines 503-507: a sentence ends at i and a capital letter follows
Break(text, i) ==
  /\ At(text, i) \in {".", "\n"}
  /\ i + 1 < Len(text) /\ IsSpace(At(text, i + 1))
  /\ i + 2 < Len(text) /\ IsUpper(At(text, i + 2))

\* the last '.' or '!' of lo..hi, or lo - 1
LastStop(text, lo, hi) == Last(lo, hi, LAMBDA j : At(text, j) \in {".", "!"})

\* lines 466-514 once the scan has stopped at i (past the window: no stop)
EndAt(text, end_pos, search_end, headers, i) ==
  IF i > search_end - 1
  THEN LET end == Last(end_pos, search_end - 1, LAMBDA j : At(text, j) \in {".", "\n"})
       IN  IF end < end_pos THEN end_pos ELSE end + 1
  ELSE IF Numbered(text, i)
       THEN LET lo == Max2(end_pos, i - 100) + 1
                back == LastStop(text, lo, i - 1)
            IN  IF back < lo THEN i - 1 ELSE back + 1
  ELSE IF Header(text, i, end_pos, headers)
       THEN LET lo == Max2(end_pos, i - 50) + 1
                back == LastStop(text, lo, i - 1)
            IN  IF back < lo THEN i ELSE back + 1
  ELSE i + 1

ScanEnd(text, end_pos, search_end, headers) ==
  EndAt(text, end_pos, search_end, headers,
        First(end_pos, search_end - 1,
              LAMBDA i : \/ Numbered(text, i)
                         \/ Header(text, i, end_pos, headers)
                         \/ Break(text, i)))

\* lines 463-514: the end of the snippet of a match that ends at end_pos
SentenceEnd(tx, end_pos, context_chars) ==
  ScanEnd(tx.o, end_pos, Min2(Len(tx.o), end_pos + context_chars),
          SectionHeaders(tx, end_pos + 31, Min2(Len(tx.o), end_pos + context_chars) + 39))

\* re.split(pat, text): the pieces between the matches ms
RECURSIVE Pieces(_, _, _, _)
Pieces(tx, ms, i, from) ==
  IF i > Len(ms) THEN <<BSlice(tx, from, Len(tx.o))>>
  ELSE <<BSlice(tx, from, ms[i][1])>> \o Pieces(tx, ms, i + 1, ms[i][2])

\* a + sep + b
Joined(a, sep, b) == Text(a.o \o sep \o b.o, a.l \o sep \o b.l)

\* sep.join(parts)
RECURSIVE Join(_, _)
Join(parts, sep) ==
  IF Len(parts) = 0 THEN Text("", "")
  ELSE IF Len(parts) = 1 THEN parts[1]
  ELSE Joined(parts[1], sep, Join(Tail(parts), sep))

\* lines 565-566: the words of a prepayment sentence
PrepaymentWords == << <<Lit("prepayment")>>, <<Lit("foreclosur")>>, <<Lit("switchover")>>,
                      <<Lit("fixed"), Ws1, Lit("rate")>>,
                      <<Lit("floating"), Ws1, Lit("rate")>> >>

\* [s for s in sentences if re.search(prepayment words, s, re.IGNORECASE)]
RECURSIVE PrepaymentOnly(_)
PrepaymentOnly(parts) ==
  IF parts = <<>> THEN <<>>
  ELSE (IF FoundAny(parts[1].l, parts[1].g, PrepaymentWords) THEN <<parts[1]>> ELSE <<>>)
       \o PrepaymentOnly(Tail(parts))

\* The rewrites of lines 526-556, in order: re.sub(pat, repl, text), with
\* re.IGNORECASE when ignorecase, applied only when the pattern `when'
\* is found (when = <<>>: always).
\*   lines 549-554: loan_detail_patterns (re.IGNORECASE | re.DOTALL)
Rewrite(pat, repl, ignorecase) ==
  [pat |-> pat, repl |-> repl, ignorecase |-> ignorecase, when |-> <<>>]

Aforesaid == <<Bol, Lit("the"), Ws1, Lit("aforesaid"), Ws1, Lit("sanction")>>

Conditions == <<Lit("terms"), Ws1, Lit("and"), Ws1, Lit("conditions:")>>

MarkerRewrites == <<
  Rewrite(<<Lit("---"), Ws0, Lit("page"), Ws1, D1, Ws0, Lit("---")>>, "", TRUE),
  Rewrite(<<BolM, Ws0, Lit("|"), Ws0, Lit("article"), Ws1, D1, Lit("."), Ws0,
            Lit("|"), Ws0, Rep("letterws", 1, Unbounded), Ws0, Lit("|"), Ws0,
            D1, Ws0, Lit("|"), Ws0, EolM>>, "", TRUE),
  Rewrite(<<Bol, Ws0, D1, Lit("."), Ws1>>, "", FALSE),
  Rewrite(<<Lit("."), D1, Lit("."), Ws0, Eol>>, ".", FALSE),
  Rewrite(<<Ws1, Lit("sp"), Rep("dashws", 0, 1), Lit("ecial"), Ws1,
            Lit("terms"), DotStar, Eol>>, "", TRUE),
  Rewrite(<<Ws1, Lit("pre"), Ws1, Lit("disbursment"), DotStar, Eol>>, "", TRUE),
  Rewrite(<<Ws1, Lit("post"), Ws1, Lit("disbursment"), DotStar, Eol>>, "", TRUE),
  Rewrite(<<Ws1, Rep("upper", 1, 1), Lit("."), Ws0, Eol>>, "", FALSE),
  [pat |-> Aforesaid \o <<Rep("all", 0, Unbounded)>> \o Conditions
           \o <<RepLazy("all", 0, Unbounded), Lit("\n")>>,
   repl |-> "", ignorecase |-> TRUE,
   when |-> Aforesaid \o <<DotStar>> \o Conditions],
  Rewrite(<<Lit("rizona"), Ws1, Lit("state"), Ws1, Lit("university"),
            RepLazy("all", 0, Unbounded), Lit("gujarat")>>, "", TRUE),
  Rewrite(<<Lit("purpose"), Ws1, Lit("of"), Ws1, Lit("loan"),
            RepLazy("all", 0, Unbounded), Lit("gujarat")>>, "", TRUE),
  Rewrite(<<Lit("loan"), Ws1, Lit("tenure"), Ws1, D1, RepLazy("all", 0, Unbounded),
            Lit("moratorium"), Ws1, Lit("period"), Ws1, D1>>, "", TRUE),
  Rewrite(<<Lit("interest"), Ws1, Lit("type"), RepLazy("all", 0, Unbounded),
            Lit("processing"), Ws1, Lit("charges")>>, "", TRUE) >>

\* one rewrite of the list
Rewritten(tx, rule) ==
  IF rule.when # <<>> /\ ~Found(tx.l, tx.g, rule.when) THEN tx
  ELSE IF rule.ignorecase THEN SubI(tx, rule.pat, rule.repl)
  ELSE SubS(tx, rule.pat, rule.repl)

\* the rewrites k.. of the list, in order (none changes an empty text)
RECURSIVE RewrittenFrom(_, _, _)
RewrittenFrom(tx, rules, k) ==
  IF k > Len(rules) \/ tx.o = "" THEN tx
  ELSE RewrittenFrom(Rewritten(tx, rules[k]), rules, k + 1)

\* lines 526-556: the rewrites applied to a snippet
CleanMarkers(tx) == RewrittenFrom(tx, MarkerRewrites, 1)

\* line 570: '. '.join(prepayment_sentences) + '.'
PrepaymentText(tx, prepayment_sentences) ==
  IF prepayment_sentences # <<>>
  THEN Joined(Join(prepayment_sentences, ". "), ".", Text("", ""))
  ELSE tx

\* lines 558-570: keep only the prepayment sentences of a snippet that holds
\* loan application fields
KeepPrepaymentSentences(tx) ==
  IF FoundAny(tx.l, tx.g, << <<Lit("applicant")>>, <<Lit("co-applicant")>>, <<Lit("guarantor")>>,
                       <<Lit("nature"), Ws1, Lit("of"), Ws1, Lit("loan")>>,
                       <<Lit("sanction"), Ws1, Lit("amount")>> >>)
  THEN PrepaymentText(tx, PrepaymentOnly(Pieces(tx, FindIter(tx.o, tx.g, <<Rep("stop", 1, 1), Ws1>>),
                                                1, 0)))
  ELSE tx

\* lines 572-581: drop a leading fragment up to the first capital letter
DropFragment(tx) ==
  IF Len(tx.o) > 0 /\ ~IsUpper(At(tx.o, 0)) /\ ~IsDigit(At(tx.o, 0))
  THEN LET head == Slice(tx.l, 0, 20)
           opener == \E w \in {"the", "a", "an", "this", "that", "resident", "management",
                               "landlord", "tenant", "borrower"} :
                        Slice(head, 0, Len(w)) = w
           cap == First(0, Len(tx.o) - 1, LAMBDA i : IsUpper(At(tx.o, i)))
       IN  IF ~opener /\ cap < Len(tx.o) /\ cap > 0
           THEN BSlice(tx, cap, Len(tx.o))
           ELSE tx
  ELSE tx

\* lines 583-586.  [ \t]+ -> ' ' changes only the runs that are not one
\* space, which are the runs the first pattern below matches.
CollapseWhitespace(tx) ==
  BStrip(SubS(SubS(tx, <<Alt(<< <<Lit("  ")>>, <<Lit(" \t")>>, <<Lit("\t")>> >>),
                         Rep("blank", 0, Unbounded)>>, " "),
              <<Lit("\n"), Ws0, Rep("newline", 1, Unbounded)>>, "\n\n"))

\* the number of the match m of ARTICLE\s+(\d+) in w, or None
ArticleNumber(w, m) ==
  IF m[1] = -1 THEN None
  ELSE Slice(w, RunEnd(w, m[1] + 7, "space", Unbounded), m[2])

\* lines 588-590: the article number near the match, or None
ArticleIn(w, g) == ArticleNumber(w, Search(w, g, <<Lit("article"), Ws1, D1>>))

ArticleNear(tx, start_pos) ==
  ArticleIn(Slice(tx.l, Max2(0, start_pos - 200), start_pos + 100), tx.g)

\* lines 592-606: the snippet cut to about 1200 characters
LimitLength(clause_text) ==
  IF Len(clause_text) > 1200
  THEN LET truncated == Slice(clause_text, 0, 1200)
           last_period == RFind(truncated, ".")
           last_newline == RFind(truncated, "\n")
       IN  IF last_period > 900 THEN Slice(truncated, 0, last_period + 1)
           ELSE IF last_newline > 900 THEN Slice(truncated, 0, last_newline)
           ELSE truncated \o "..."
  ELSE clause_text

\* lines 516-524: the sentence, or the window around the match when the
\* sentence is shorter than 100 characters
Widened(tx, sentence, start_pos, end_pos, context_chars) ==
  IF Len(sentence.o) < 100
  THEN BStrip(BSlice(tx, Max2(0, start_pos - context_chars),
                         Min2(Len(tx.o), end_pos + context_chars)))
  ELSE sentence

\* lines 446-606: the text of the clause of the match from start_pos to
\* end_pos
ClauseText(tx, start_pos, end_pos, context_chars) ==
  LimitLength(
    CollapseWhitespace(DropFragment(KeepPrepaymentSentences(CleanMarkers(
      Widened(tx,
              BStrip(BSlice(tx, SentenceStart(tx, start_pos, context_chars),
                                SentenceEnd(tx, end_pos, context_chars))),
              start_pos, end_pos, context_chars))))).o)

\* the body of the loop of lines 444-613 for the match m = <<start, end>>
ClauseOfMatch(tx, m, context_chars) ==
  [text |-> ClauseText(tx, m[1], m[2], context_chars),
   match |-> Slice(tx.o, m[1], m[2]),
   position |-> m[1],
   article |-> ArticleNear(tx, m[1])]

\* the clauses of the matches ms
ClausesOf(tx, ms, context_chars) ==
  [i \in 1..Len(ms) |-> ClauseOfMatch(tx, ms[i], context_chars)]

\* extract_clause_context(text, pattern, context_chars); tx is Both(text)
ExtractClauseContext(tx, pattern, context_chars) ==
  ClausesOf(tx, FindIter(tx.l, tx.g, pattern), context_chars)

(***************************************************************************)
(* is_relevant_clause                                                      *)
(***************************************************************************)

\* addendum_keywords, lines 742-753
AddendumKeywords == <<
  <<Lit("valet"), Ws1, Lit("trash")>>,
  K2("bicycle", "rider"), K2("storage", "unit"), K2("pet", "addendum"),
  K2("pool", "area"), K2("amenity", "space"), K2("parking", "permit"),
  K2("garage", "space"),
  <<Lit("container"), Rep("s", 0, 1), DotStar, Lit("trash")>>,
  K2("rider", "bicycle") >>

\* r'\$\s*\d+'
DollarAmount == <<Lit("$"), Ws0, D1>>

\* r'\d+\s*(month|year|day)'
CountedPeriod == << <<D1, Ws0, Lit("month")>>, <<D1, Ws0, Lit("year")>>,
                    <<D1, Ws0, Lit("day")>> >>

\* lines 766-779 alone: the test of has_core_info is left out
AddendumNarrowOnly(tx, original_text) ==
  FoundAny(tx.l, tx.g, << K1("bicycle"), K2("rider", "bicycle"), K2("trash", "container") >>)
    => /\ FoundAny(tx.l, tx.g, << DollarAmount, K1("liability"), K1("damage"),
                              K1("responsible"), K1("obligation") >>)
       /\ Len(original_text) > 100

\* In the operators below tx is Both(original_text), so that tx.l is text.
\* lines 759-782: FALSE when an addendum-specific snippet is to be dropped
AddendumKept(tx, original_text) ==
  LET has_core_info ==
        \/ FoundAny(tx.l, tx.g, << DollarAmount, K1("amount"), K1("fee"), K1("deposit"),
                             K1("rent"), K1("term"), K1("obligation"), K1("liability") >>)
        \/ FoundAny(tx.l, tx.g, CountedPeriod)
        \/ Len(original_text) > 200
      is_very_specific ==
        FoundAny(tx.l, tx.g, << K1("bicycle"), K2("rider", "bicycle"), K2("trash", "container") >>)
      has_significant_impact ==
        /\ FoundAny(tx.l, tx.g, << DollarAmount, K1("liability"), K1("damage"),
                             K1("responsible"), K1("obligation") >>)
        /\ Len(original_text) > 100
  IN  /\ is_very_specific => has_significant_impact
      /\ has_core_info

\* lines 815-838: the rule of the category 'payment'.  [\$\₹] is the class
\* "currency".
PaymentKept(tx) ==
  LET is_warranty_text ==
        \/ FoundAny(tx.l, tx.g, << <<WB, Lit("warrant"), WB, NotAhead(<<DotStar, Lit("fee")>>)>>,
                             <<WB, Lit("guarantee"), WB,
                               NotAhead(<<DotStar, Lit("payment")>>)>> >>)
        \/ Found(tx.l, tx.g, K3("fair", "reasonable", "compensation"))
      has_fee_in_warranty ==
        FoundAny(tx.l, tx.g, << <<Lit("late"), Ws1, Lit("fee")>>,
                          <<Lit("reversal"), Ws1, Lit("fee")>>,
                          <<Lit("nsf"), Ws1, Lit("charge")>>, K2("payment", "fee") >>)
      has_payment_info ==
        \/ FoundAny(tx.l, tx.g, << <<Rep("currency", 1, 1), Ws0, D1>>, K1("amount"), K1("fee"),
                             K1("payment"), K1("rent"), K1("installment"), K1("emi") >>)
        \/ FoundAny(tx.l, tx.g, << <<Lit("per"), Ws1, Lit("month")>>, K1("monthly"),
                             K1("annual"), <<Lit("due"), Ws1, Lit("date")>> >>)
        \/ FoundAny(tx.l, tx.g, << K2("deviation", "charge"), K2("processing", "charge") >>)
  IN  /\ ~(is_warranty_text /\ ~has_fee_in_warranty)
      /\ has_payment_info

\* lines 840-871: the rule of the category 'warranty'
WarrantyKept(tx) ==
  LET is_payment_text ==
        /\ FoundAny(tx.l, tx.g, << <<Lit("late"), Ws1, Lit("fee")>>,
                             <<Lit("reversal"), Ws1, Lit("fee")>>,
                             <<Lit("nsf"), Ws1, Lit("charge")>>, K2("payment", "due"),
                             K1("invoice") >>)
        /\ ~FoundAny(tx.l, tx.g, << <<WB, Lit("warrant"), WB>>,
                              <<WB, Lit("guarantee"), WB>> >>)
      is_trash_fine_rule ==
        FoundAny(tx.l, tx.g, << <<Lit("container"), Rep("s", 0, 1), DotStar, Lit("trash")>>,
                          K2("trash", "container"), K3("fine", "per", "bag"),
                          K2("violation", "fine") >>)
      has_warranty_language ==
        \/ FoundAny(tx.l, tx.g, << <<WB, Lit("warranty"), WB>>, <<WB, Lit("warranties"), WB>> >>)
        \/ Found(tx.l, tx.g, <<WB, Lit("guarantee"), WB>>)
        \/ FoundAny(tx.l, tx.g, << <<WB, Lit("warrant"), WB, DotStar, WB, Lit("product")>>,
                             <<WB, Lit("warrant"), WB, DotStar, WB, Lit("service")>>,
                             <<WB, Lit("warrant"), WB, DotStar, WB, Lit("workmanship")>>,
                             <<WB, Lit("warrant"), WB, DotStar, WB, Lit("condition")>> >>)
        \/ FoundAny(tx.l, tx.g, << K2("no", "warrant"), K2("disclaim", "warrant") >>)
        \/ Found(tx.l, tx.g, K3("as", "is", "warrant"))
  IN  /\ ~(is_payment_text \/ is_trash_fine_rule)
      /\ has_warranty_language

\* lines 721-871 and 950 for tx = Both(original_text), so that tx.l is text,
\* and stripped = text.strip()
Relevant(tx, stripped, clause_type) ==
  /\ ~Found(tx.l, tx.g, <<Bol, Ws0, Lit("article"), Ws1, D1, Lit("."), Ws0,
                    Rep("word", 1, Unbounded), Ws1, D1, Ws0, Eol>>)
  /\ ~FoundAny(stripped, tx.g, << <<Bol, Lit("page"), Ws0, D1, Eol>>,
                            <<Bol, Lit("p"), Rep("period", 0, 1), Ws0, D1, Eol>> >>)
  /\ ~(Len(stripped) < 50)
  /\ ~Found(stripped, tx.g, <<Bol, Ws0, Lit("section"), Ws1, D1, Lit("."), D1,
                        Rep("period", 0, 1), Ws0, Eol>>)
  /\ ~Found(tx.l, tx.g, <<Bol, Ws0, Lit("article"), Ws1, D1, Lit("."), Ws0,
                    Rep("letterws", 1, Unbounded), Eol>>)
  /\ (FoundAny(tx.l, tx.g, AddendumKeywords) => AddendumKept(tx, tx.o))
  /\ (clause_type = "payment" => PaymentKept(tx))
  /\ (clause_type = "warranty" => WarrantyKept(tx))

RelevantText(tx, clause_type) == Relevant(tx, BStrip(tx).l, clause_type)

\* is_relevant_clause(match, clause_type), lines 717-871 and 950.  The rules
\* of lines 785-813 and 873-948 are those of categories that this model
\* never passes to the function.
IsRelevantClause(match, clause_type) == RelevantText(Both(match.text), clause_type)

(***************************************************************************)
(* texts_similar                                                           *)
(***************************************************************************)

\* set(re.findall(r'\w+', text.lower()))
WordSet(text) ==
  LET s == Lower(text)
      first == {p \in 0..(Len(s) - 1) :
                  IsWordChar(At(s, p)) /\ (p = 0 \/ ~IsWordChar(At(s, p - 1)))}
  IN  {Slice(s, p, RunEnd(s, p, "word", Unbounded)) : p \in first}

\* lines 962-970 on the two word sets; intersection / union >= tenths / 10
\* in floating point exactly when 10 * intersection >= tenths * union
SimilarWords(words1, words2, tenths) ==
  IF words1 = {} \/ words2 = {} THEN FALSE
  ELSE LET intersection == Cardinality(words1 \cap words2)
           union == Cardinality(words1 \cup words2)
       IN  10 * intersection >= tenths * union

\* texts_similar(text1, text2, threshold) with threshold = tenths / 10
TextsSimilar(text1, text2, tenths) ==
  SimilarWords(WordSet(text1), WordSet(text2), tenths)

(***************************************************************************)
(* prioritize_and_limit_clauses                                            *)
(***************************************************************************)

\* [c for c in clauses if keep(c)] for keep given as the set of kept indexes
RECURSIVE Select(_, _, _)
Select(clauses, kept, i) ==
  IF i > Len(clauses) THEN <<>>
  ELSE (IF i \in kept THEN <<clauses[i]>> ELSE <<>>) \o Select(clauses, kept, i + 1)

\* int(s) for a string of digits
RECURSIVE ParseInt(_)
ParseInt(s) ==
  IF Len(s) = 0 THEN 0
  ELSE LET d == Slice(s, Len(s) - 1, Len(s))
           v == CHOOSE n \in 0..9 : Slice("0123456789", n, n + 1) = d
       IN  10 * ParseInt(Slice(s, 0, Len(s) - 1)) + v

\* str.isdigit() for the ASCII strings of the model
IsDigitString(s) == Len(s) > 0 /\ \A i \in 0..(Len(s) - 1) : IsDigit(At(s, i))

\* a < b for keys that are pairs of integers
KeyLess(a, b) == a[1] < b[1] \/ (a[1] = b[1] /\ a[2] < b[2])

\* list.sort(key=...): stable, ascending in keys[i] (the key of clauses[i])
SortByKey(clauses, keys) ==
  LET n == Len(clauses)
      rank(j) == 1 + Cardinality({k \in 1..n : \/ KeyLess(keys[k], keys[j])
                                               \/ (keys[k] = keys[j] /\ k < j)})
  IN  [r \in 1..n |-> clauses[CHOOSE j \in 1..n : rank(j) = r]]

\* the limits table, lines 999-1023
limits == [default_remedies |-> 3, subletting |-> 2, security_deposit |-> 2,
           payment |-> 3, indemnity |-> 2, liability |-> 2, rent_increase |-> 2,
           dispute_resolution |-> 2, warranty |-> 2, duration_term |-> 2,
           obligations_duties |-> 3, modifications_amendments |-> 2,
           data_information |-> 2, calculation_methodology |-> 2,
           interest_rate |-> 2, loan_tenure |-> 2, moratorium |-> 2,
           penal_interest |-> 2, security_collateral |-> 3, prepayment |-> 2,
           insurance_requirement |-> 2, disbursement |-> 2]

\* A faulty variant of Limit: the table is not consulted.
UniformLimit(clause_type) == 3

\* limits.get(clause_type, 3), line 1025
Limit(clause_type) ==
  IF clause_type \in DOMAIN limits THEN limits[clause_type] ELSE 3

\* A faulty variant of Prioritized: the clauses stay in the order found.
Unprioritized(clauses) == clauses

\* A faulty variant of Prioritized: the article numbers are compared as
\* strings are, by their first digit.
PrioritizedByDigit(clauses) ==
  SortByKey(Select(clauses, {i \in 1..Len(clauses) : Truthy(clauses[i].article)}, 1),
            [i \in 1..Cardinality({k \in 1..Len(clauses) : Truthy(clauses[k].article)}) |->
               <<ParseInt(Slice(Select(clauses, {k \in 1..Len(clauses) : Truthy(clauses[k].article)}, 1)[i].article, 0, 1)), 0>>])
  \o Select(clauses, {i \in 1..Len(clauses) : ~Truthy(clauses[i].article)}, 1)

\* lines 986-996: the article-carrying clauses by (article number, position),
\* then the others by length of text, longest first
Prioritized(clauses) ==
  LET with_article == Select(clauses, {i \in 1..Len(clauses) : Truthy(clauses[i].article)}, 1)
      without_article == Select(clauses, {i \in 1..Len(clauses) : ~Truthy(clauses[i].article)}, 1)
      article_key(c) == <<IF Truthy(c.article) /\ IsDigitString(c.article)
                          THEN ParseInt(c.article) ELSE 999,
                          c.position>>
  IN  SortByKey(with_article, [i \in 1..Len(with_article) |-> article_key(with_article[i])])
      \o SortByKey(without_article,
                   [i \in 1..Len(without_article) |-> <<0 - Len(without_article[i].text), 0>>])

\* prioritize_and_limit_clauses(clauses, clause_type)
PrioritizeAndLimitClauses(clauses, clause_type) ==
  IF clauses = <<>> THEN <<>>
  ELSE LET prioritized == Prioritized(clauses)
       IN  SubSeq(prioritized, 1, Min2(Limit(clause_type), Len(prioritized)))

(***************************************************************************)
(* extract_all_clauses: the body of the loop over the catalog              *)
(***************************************************************************)

\* the default of the parameter context_chars of extract_clause_context
ContextChars == 500

\* line 659: pattern = r'\b' + keyword_pattern + r'\b'
Pattern(keyword_pattern) == <<WB>> \o keyword_pattern \o <<WB>>

\* lines 656-662: the matches of the keywords k.. of a category, keyword by
\* keyword, each keyword's matches from left to right
RECURSIVE Matches(_, _, _)
Matches(tx, keywords, k) ==
  IF k > Len(keywords) THEN <<>>
  ELSE ExtractClauseContext(tx, Pattern(keywords[k]), ContextChars)
       \o Matches(tx, keywords, k + 1)

\* |a - b|
Abs(n) == IF n < 0 THEN 0 - n ELSE n

\* Faulty variants of IsDuplicate: one criterion only.
IsNearDuplicate(found_clauses, match) ==
  \E i \in 1..Len(found_clauses) :
     Abs(found_clauses[i].position - match.position) < 200

IsSimilarDuplicate(found_clauses, match) ==
  \E i \in 1..Len(found_clauses) :
     TextsSimilar(found_clauses[i].text, match.text, 7)

\* lines 671-680: match repeats a clause of found_clauses
IsDuplicate(found_clauses, match) ==
  \E i \in 1..Len(found_clauses) :
     \/ Abs(found_clauses[i].position - match.position) < 200
     \/ TextsSimilar(found_clauses[i].text, match.text, 7)

\* A faulty variant of Collect: a duplicate takes the place of the clause
\* accepted last.
RECURSIVE CollectLatest(_, _, _, _)
CollectLatest(found_clauses, matches, relevant, i) ==
  IF i > Len(matches) THEN found_clauses
  ELSE IF ~relevant[i] THEN CollectLatest(found_clauses, matches, relevant, i + 1)
  ELSE IF IsDuplicate(found_clauses, matches[i])
  THEN CollectLatest(Append(SubSeq(found_clauses, 1, Len(found_clauses) - 1), matches[i]),
                     matches, relevant, i + 1)
  ELSE CollectLatest(Append(found_clauses, matches[i]), matches, relevant, i + 1)

\* lines 665-683: the loop over matches i.., where relevant[i] is
\* is_relevant_clause(matches[i], clause_type)
RECURSIVE Collect(_, _, _, _)
Collect(found_clauses, matches, relevant, i) ==
  IF i > Len(matches) THEN found_clauses
  ELSE IF ~relevant[i] THEN Collect(found_clauses, matches, relevant, i + 1)
  ELSE IF IsDuplicate(found_clauses, matches[i])
  THEN Collect(found_clauses, matches, relevant, i + 1)
  ELSE Collect(Append(found_clauses, matches[i]), matches, relevant, i + 1)

\* lines 690-696: the group of a category
Group(clause_info, found_clauses) ==
  [type |-> clause_info.type,
   description |-> clause_info.description,
   risk_level |-> clause_info.risk_level,
   clauses |-> found_clauses,
   count |-> Len(found_clauses)]

\* A faulty variant of Grouped: the test of line 689 is missing.
GroupedAlways(clause_info, matches, relevant, found_clauses) ==
  [matches |-> matches,
   relevant |-> relevant,
   groups |-> <<Group(clause_info, found_clauses)>>]

\* lines 689-696: the category's matches, their verdicts and the groups the
\* category appends (none or one)
Grouped(clause_info, matches, relevant, found_clauses) ==
  [matches |-> matches,
   relevant |-> relevant,
   groups |-> IF found_clauses # <<>> THEN <<Group(clause_info, found_clauses)>>
              ELSE <<>>]

\* lines 665-686: the matches deduplicated, prioritized and limited
Judged(clause_info, matches, relevant) ==
  Grouped(clause_info, matches, relevant,
          PrioritizeAndLimitClauses(Collect(<<>>, matches, relevant, 1), clause_info.type))

\* line 667: the verdict of is_relevant_clause on every match
Verdicts(clause_info, matches) ==
  Judged(clause_info, matches,
         [i \in 1..Len(matches) |-> IsRelevantClause(matches[i], clause_info.type)])

\* lines 653-696 for one category: its matches, which of them are relevant,
\* and the groups it appends to extracted_clauses (none or one)
Category(tx, clause_info) == Verdicts(clause_info, Matches(tx, clause_info.keywords, 1))

\* lines 649-700 as a function of the text and the catalog
RECURSIVE Groups(_, _, _)
Groups(tx, patterns, c) ==
  IF c > Len(patterns) THEN <<>>
  ELSE Category(tx, patterns[c]).groups \o Groups(tx, patterns, c + 1)

\* extract_all_clauses(contract_text), run on its own
ExtractAllClauses(contract_text) ==
  IF ~Truthy(contract_text) THEN <<>>
  ELSE Groups(Both(contract_text), CLAUSE_PATTERNS, 1)

(***************************************************************************)
(* The documents of the model: at most MaxSent of the sentences of        *)
(* Library, in the order of the library or in the opposite order.          *)
(*   1, 4  clauses without a header that name every category              *)
(*   2     a termination sentence worded with "expire" and "terminated"    *)
(*   3     a clause under an ARTICLE header                                *)
(*   5     a mention shorter than 50 characters                            *)
(***************************************************************************)

Library == <<
  "The Supplier may cancel any purchase order when an invoice stays unpaid for sixty days and the Customer owes indemnification for losses caused by that delay while both sides keep confidential every price list exchanged under this evergreen supply arrangement between the two companies.\n",
  "This Agreement will expire after three years unless it is terminated earlier by written notice and until the final due date each licensee shall hold the licensor harmless from third party suits and honour the signed nda while subscriptions auto renew on every anniversary of signature.\n",
  "ARTICLE 5 TERMINATION\nThe Landlord can cancel the lease if rent remains outstanding and a late fee accrues daily whereas the Tenant must assume full liability for damage to fixtures and guard each trade secret of the building operator and the tenancy shall renew automatically for one further season.\n",
  "Each Contractor is free to cancel unfinished work once the agreed payment schedule is missed twice and must provide indemnification against wage claims of its crew and shall protect proprietary information of the Owner and accept that framework terms self renew whenever no objection is filed.\n",
  "The Tenant may cancel at will.\n" >>

\* a document of one line without a full stop before its end, in which
\* 'auto.*renew' matches more than 1200 characters
Unbroken ==
  "The subscription shall auto extend and each further seat that the customer adds during a term is billed at the listed rate for that term and each further seat that the customer adds during a term is billed at the listed rate for that term and each further seat that the customer adds during a term is billed at the listed rate for that term and each further seat that the customer adds during a term is billed at the listed rate for that term and each further seat that the customer adds during a term is billed at the listed rate for that term and each further seat that the customer adds during a term is billed at the listed rate for that term and each further seat that the customer adds during a term is billed at the listed rate for that term and each further seat that the customer adds during a term is billed at the listed rate for that term and each further seat that the customer adds during a term is billed at the listed rate for that term and each further seat that the customer adds during a term is billed at the listed rate for that term and each further seat that the customer adds during a term is billed at the listed rate for that term and each further seat that the customer adds during a term is billed at the listed rate for that term and renew on every anniversary of the signature date unless notice is given.\n"

MaxSent == 4

MaxCalls == 2

RECURSIVE Concat(_, _)
Concat(order, i) ==
  IF i > Len(order) THEN "" ELSE Library[order[i]] \o Concat(order, i + 1)

\* the sentences chosen, in ascending or descending order
Ordered(chosen, ascending) ==
  [i \in 1..Cardinality(chosen) |->
     CHOOSE x \in chosen :
       Cardinality({y \in chosen : IF ascending THEN y < x ELSE y > x}) = i - 1]

\* the orders of at most MaxSent sentences; the empty order gives the empty
\* document
Orderings ==
  {Ordered(chosen, ascending) :
     chosen \in {c \in SUBSET (1..Len(Library)) : Cardinality(c) <= MaxSent},
     ascending \in BOOLEAN}

\* the documents of the interleaved calls
PairDocs == {
  "The Tenant may cancel this lease at any time by giving thirty days written notice.\n",
  "The Buyer shall keep confidential every late fee that the Seller charges under this order.\n",
  Library[5] }

(***************************************************************************)
(* ai_analyzer.py: the summaries of the clauses.  The generation service    *)
(* is the environment: a call of client.chat.completions.create either      *)
(* raises or answers with a content string.                                 *)
(***************************************************************************)

\* the service raises (timeout, quota, authentication, no content)
Raises == [raises |-> TRUE, content |-> ""]

\* the service answers with the content c
Says(c) == [raises |-> FALSE, content |-> c]

\* w in s, for strings
Contains(s, w) ==
  \E p \in 0..(Len(s) - Len(w)) : SubSeq(s, p + 1, p + Len(w)) = w

\* s.startswith(w)
StartsWith(s, w) == Len(s) >= Len(w) /\ SubSeq(s, 1, Len(w)) = w

\* s.strip(chars) for the characters of the class cls
StripOf(s, cls) ==
  Slice(s, First(0, Len(s) - 1, LAMBDA i : ~InClass(At(s, i), cls)),
           Last(0, Len(s) - 1, LAMBDA i : ~InClass(At(s, i), cls)) + 1)

\* r'[.!?]+'
StopRun == <<Rep("stop", 1, Unbounded)>>

\* re.split(r'[.!?]+', clause_text)
Sentences(tx) == Pieces(tx, FindIter(tx.o, tx.g, StopRun), 1, 0)

\* [s.strip() for s in sentences if len(s.strip()) > 20]
RECURSIVE CompleteSentences(_)
CompleteSentences(parts) ==
  IF parts = <<>> THEN <<>>
  ELSE (IF Len(BStrip(parts[1]).o) > 20 THEN <<BStrip(parts[1])>> ELSE <<>>)
       \o CompleteSentences(Tail(parts))

\* (?:x)? for a literal x
Optional(x) == Alt(<< <<Lit(x)>>, <<>> >>)

\* r'\$?\d+[,\d]*(?:\.\d+)?%?'
NumberPattern ==
  <<Optional("$"), D1, Rep("commadigit", 0, Unbounded),
    Alt(<< <<Lit("."), D1>>, <<>> >>), Optional("%")>>

\* r'\d{1,2}[/-]\d{1,2}[/-]\d{2,4}|\d+\s+(january|...|december)'
DatePatterns == <<
  <<Rep("digit", 1, 2), Rep("slashdash", 1, 1), Rep("digit", 1, 2),
    Rep("slashdash", 1, 1), Rep("digit", 2, 4)>>,
  <<D1, Ws1, Alt(<< <<Lit("january")>>, <<Lit("february")>>, <<Lit("march")>>,
                    <<Lit("april")>>, <<Lit("may")>>, <<Lit("june")>>,
                    <<Lit("july")>>, <<Lit("august")>>, <<Lit("september")>>,
                    <<Lit("october")>>, <<Lit("november")>>, <<Lit("december")>> >>)>> >>

\* r'\$?\d+|amount|fee|payment'
AmountPatterns ==
  << <<Optional("$"), D1>>, <<Lit("amount")>>, <<Lit("fee")>>, <<Lit("payment")>> >>

\* lines 512-516: without a client, the first complete sentence of the text,
\* or the text itself cut to 200 characters
FirstComplete(tx, complete_sentences) ==
  IF complete_sentences # <<>> THEN complete_sentences[1].o \o "."
  ELSE IF Len(tx.o) > 200 THEN Slice(tx.o, 0, 200) \o "..."
  ELSE tx.o

\* lines 635-638: has_content
HasContent(first_sent) ==
  Found(first_sent.o, first_sent.g, NumberPattern) \/ Len(first_sent.o) > 50

\* lines 631-640: after an exception, the first complete sentence when it
\* has content, else None
FirstWithContent(complete_sentences) ==
  IF complete_sentences # <<>> /\ HasContent(complete_sentences[1])
  THEN complete_sentences[1].o \o "."
  ELSE None

\* lines 588-600
fallback_phrases == <<
  "not explicitly stated", "not mentioned", "not provided", "not specified",
  "cannot find", "unable to find", "not found in", "no information",
  "not available", "does not contain", "lacks information" >>

\* line 602
IsFallback(summary_lower) ==
  \E i \in 1..Len(fallback_phrases) : Contains(summary_lower, fallback_phrases[i])

\* line 617: the test on a stripped sentence
Meaningful(sent) ==
  /\ Len(sent.o) > 30
  /\ (FoundAny(sent.l, sent.g, AmountPatterns) \/ Len(sent.o) > 50)

\* lines 613-619: the first sentence that passes the test, with a full stop,
\* or None when the loop ends without one
RECURSIVE FirstMeaningful(_)
FirstMeaningful(parts) ==
  IF parts = <<>> THEN None
  ELSE IF Meaningful(BStrip(parts[1])) THEN BStrip(parts[1]).o \o "."
  ELSE FirstMeaningful(Tail(parts))

\* lines 608-612: has_numbers or has_dates
HasEvidence(tx) ==
  Found(tx.o, tx.g, NumberPattern) \/ FoundAny(tx.l, tx.g, DatePatterns)

\* A faulty variant of Disclaimed: no sentence is taken from the clause.
Dismissed(tx) == None

\* lines 605-624: the answer was a disclaimer
Disclaimed(tx) ==
  IF Len(BStrip(tx).o) > 100 /\ HasEvidence(tx)
  THEN FirstMeaningful(Sentences(tx))
  ELSE None

\* A faulty variant of Filtered: the answer is passed on as it is.
Unfiltered(tx, summary, summary_lower) == summary

\* lines 581-626: the answer of the service, stripped of its quotes
Filtered(tx, summary, summary_lower) ==
  IF summary_lower = "none" \/ StartsWith(summary_lower, "none") THEN None
  ELSE IF IsFallback(summary_lower) THEN Disclaimed(tx)
  ELSE summary

\* lines 576-578
Unquoted(content) == StripOf(StripOf(StripOf(content, "space"), "quote"), "apostrophe")

\* lines 497-640: summarize_clause_text(clause_text, clause_type, article_num)
\* with client = FALSE when get_openai_client() returns None, and reply the
\* behaviour of the service on the call of line 560
SummarizeText(tx, client, reply) ==
  IF ~client THEN FirstComplete(tx, CompleteSentences(Sentences(tx)))
  ELSE IF reply.raises THEN FirstWithContent(CompleteSentences(Sentences(tx)))
  ELSE Filtered(tx, Unquoted(reply.content), Lower(Unquoted(reply.content)))

SummarizeClauseText(clause_text, clause_type, article_num, client, reply) ==
  SummarizeText(Both(clause_text), client, reply)

\* lines 653-688: add_clause_summaries.  The calls of the service are
\* numbered in the order the code makes them; replies[k] is the behaviour of
\* the service on the k-th call, and the replies repeat after the last one.
ReplyOf(replies, k) == replies[((k - 1) % Len(replies)) + 1]

\* lines 663-680: the copy of an instance, with its summary when there is one
Enhanced(instance, summary) ==
  IF summary # None THEN ("summary" :> summary) @@ instance ELSE instance

\* line 660: instances_to_summarize = clause_group['clauses'][:3]
InstancesToSummarize(clause_group) == SubSeq(clause_group.clauses, 1, Min2(3, Len(clause_group.clauses)))

\* lines 662-680: enhanced_instances, after the calls k0 + 1, k0 + 2, ..
EnhancedInstances(clause_type, instances, client, replies, k0) ==
  [j \in 1..Len(instances) |->
     Enhanced(instances[j],
              SummarizeClauseText(instances[j].text, clause_type, instances[j].article,
                                  client, ReplyOf(replies, k0 + j)))]

\* lines 656-686: the copy of the group with the enhanced instances, and
\* nothing when there are none
EnhancedGroup(clause_group, enhanced_instances) ==
  IF enhanced_instances # <<>>
  THEN <<[clause_group EXCEPT !.clauses = enhanced_instances]>>
  ELSE <<>>

RECURSIVE EnhancedFrom(_, _, _, _, _)
EnhancedFrom(extracted_clauses, i, client, replies, k0) ==
  IF i > Len(extracted_clauses) THEN <<>>
  ELSE EnhancedGroup(extracted_clauses[i],
                     EnhancedInstances(extracted_clauses[i].type,
                                       InstancesToSummarize(extracted_clauses[i]),
                                       client, replies, k0))
       \o EnhancedFrom(extracted_clauses, i + 1, client, replies,
                       k0 + Len(InstancesToSummarize(extracted_clauses[i])))

\* lines 643-688
AddClauseSummaries(extracted_clauses, client, replies) ==
  EnhancedFrom(extracted_clauses, 1, client, replies, 0)

\* A faulty variant of Copy: the name is bound to the dict d itself.
Same(d) == [object |-> "same", items |-> d]

\* lines 656 and 663, d.copy(): a new dict with the items of d
Copy(d) == [object |-> "new", items |-> d]

\* lines 663-680: an instance of the argument once enhanced_instance is
\* written to; the write reaches it when both are one object
InstanceAfter(instance, enhanced_instance) ==
  IF Copy(instance).object = "same" THEN enhanced_instance ELSE instance

\* lines 656-685: a group of the argument once its instances were gone
\* through and line 685 has set enhanced_group['clauses']
GroupAfter(clause_group, enhanced_instances) ==
  IF Copy(clause_group).object = "same"
  THEN [clause_group EXCEPT !.clauses = enhanced_instances]
  ELSE [clause_group EXCEPT
          !.clauses = [j \in 1..Len(@) |->
                         IF j <= Len(enhanced_instances)
                         THEN InstanceAfter(@[j], enhanced_instances[j])
                         ELSE @[j]]]

\* the groups of the argument from the i-th on, after the call that
\* returned enhanced_clauses, of which the k-th is that of the next group
\* with instances
RECURSIVE ArgumentFrom(_, _, _, _)
ArgumentFrom(extracted_clauses, enhanced_clauses, i, k) ==
  IF i > Len(extracted_clauses) THEN <<>>
  ELSE IF InstancesToSummarize(extracted_clauses[i]) = <<>>
  THEN <<extracted_clauses[i]>>
       \o ArgumentFrom(extracted_clauses, enhanced_clauses, i + 1, k)
  ELSE <<GroupAfter(extracted_clauses[i], enhanced_clauses[k].clauses)>>
       \o ArgumentFrom(extracted_clauses, enhanced_clauses, i + 1, k + 1)

\* the list that was given to add_clause_summaries, after the call
ArgumentAfter(extracted_clauses, enhanced_clauses) ==
  ArgumentFrom(extracted_clauses, enhanced_clauses, 1, 1)

(***************************************************************************)
(* ai_analyzer.py: the risk assessment and the summary of the contract.     *)
(***************************************************************************)

ToUpper == [c \in LowerChars |-> CHOOSE u \in UpperChars : ToLower[u] = c]

\* str.upper()
RECURSIVE Upper(_)
Upper(s) ==
  IF Len(s) = 0 THEN ""
  ELSE IF Len(s) = 1 THEN (IF s \in LowerChars THEN ToUpper[s] ELSE s)
  ELSE LET h == Len(s) \div 2
       IN  Upper(SubSeq(s, 1, h)) \o Upper(SubSeq(s, h + 1, Len(s)))

IsLetter(c) == c \in UpperChars \cup LowerChars

\* s.replace('_', ' ').title(): a letter is upper case when no letter stands
\* before it, and lower case otherwise
RECURSIVE TitleFrom(_, _)
TitleFrom(s, i) ==
  IF i >= Len(s) THEN ""
  ELSE (IF At(s, i) = "_" THEN " "
        ELSE IF i > 0 /\ IsLetter(At(s, i - 1)) THEN Lower(At(s, i))
        ELSE Upper(At(s, i)))
       \o TitleFrom(s, i + 1)

Title(clause_type) == TitleFrom(clause_type, 0)

\* str(n) for n >= 0
RECURSIVE Str(_)
Str(n) ==
  IF n < 10 THEN Slice("0123456789", n, n + 1)
  ELSE Str(n \div 10) \o Slice("0123456789", n % 10, (n % 10) + 1)

\* sep.join(parts) for strings
RECURSIVE JoinStrings(_, _)
JoinStrings(parts, sep) ==
  IF Len(parts) = 0 THEN ""
  ELSE IF Len(parts) = 1 THEN parts[1]
  ELSE parts[1] \o sep \o JoinStrings(Tail(parts), sep)

\* [c['type'].replace('_', ' ').title() for c in extracted_clauses[:n]]
Titles(extracted_clauses, n) ==
  [i \in 1..Min2(n, Len(extracted_clauses)) |-> Title(extracted_clauses[i].type)]

\* lines 486-494: generate_basic_summary
GenerateBasicSummary(extracted_clauses) ==
  IF extracted_clauses = <<>>
  THEN "This contract has been uploaded and analyzed. No key clauses were automatically detected. Please review all terms carefully."
  ELSE "This contract contains " \o Str(Len(extracted_clauses))
       \o " key clause types including: "
       \o JoinStrings(Titles(extracted_clauses, 5), ", ") \o "."

\* lines 388-483: generate_contract_summary
GenerateContractSummary(contract_text, extracted_clauses, client, reply) ==
  IF ~client THEN GenerateBasicSummary(extracted_clauses)
  ELSE IF reply.raises THEN GenerateBasicSummary(extracted_clauses)
  ELSE StripOf(reply.content, "space")

\* line 341
high_risk_types == {"indemnity", "liability"}

\* lines 342-343: sum(1 for c in extracted_clauses if ...)
HighRiskCount(extracted_clauses) ==
  Cardinality({i \in 1..Len(extracted_clauses) : extracted_clauses[i].type \in high_risk_types})

MediumRiskCount(extracted_clauses) ==
  Cardinality({i \in 1..Len(extracted_clauses) : extracted_clauses[i].risk_level = "medium"})

\* lines 346-351
OverallRisk(high_risk_count, medium_risk_count) ==
  IF high_risk_count > 0 THEN "HIGH"
  ELSE IF medium_risk_count > 2 THEN "MEDIUM"
  ELSE "LOW"

\* lines 365-371
Concerns(clause_type) ==
  IF clause_type = "auto_renewal" THEN <<"Contract may auto-renew without notice">>
  ELSE IF clause_type = "indemnity" THEN <<"You may be liable for damages">>
  ELSE IF clause_type = "termination" THEN <<"Review termination conditions carefully">>
  ELSE <<>>

\* lines 362-379
BasicClauseRisk(clause_data) ==
  [clause_type |-> clause_data.type,
   risk_level |-> Upper(clause_data.risk_level),
   risk_explanation |-> "Found " \o Str(clause_data.count) \o " instance(s). "
                        \o clause_data.description \o ".",
   concerns |-> Concerns(clause_data.type),
   recommendations |-> "Review this clause carefully and consider negotiating terms."]

\* lines 354-358
BasicSummary(extracted_clauses, high_risk_count) ==
  "This contract contains " \o Str(Len(extracted_clauses)) \o " key clause types: "
  \o JoinStrings(Titles(extracted_clauses, 5), ", ") \o "."
  \o (IF high_risk_count > 0
      THEN " High-risk clauses detected. Review carefully with legal counsel."
      ELSE "")

\* lines 324-385: create_basic_risk_assessment
CreateBasicRiskAssessment(extracted_clauses) ==
  IF extracted_clauses = <<>>
  THEN [overall_risk_level |-> "LOW",
        overall_summary |-> "No key clauses detected. This contract appears standard, but review all terms carefully.",
        clause_risks |-> <<>>]
  ELSE [overall_risk_level |-> OverallRisk(HighRiskCount(extracted_clauses),
                                           MediumRiskCount(extracted_clauses)),
        overall_summary |-> BasicSummary(extracted_clauses, HighRiskCount(extracted_clauses)),
        clause_risks |-> [i \in 1..Len(extracted_clauses) |->
                            BasicClauseRisk(extracted_clauses[i])]]

\* r'\{.*\}' with re.DOTALL
JsonObject == <<Lit("{"), Rep("all", 0, Unbounded), Lit("}")>>

\* r'lease\s+agreement'
LeaseAgreement == <<Lit("lease"), Ws1, Lit("agreement")>>

\* lines 277-280 and 305-308: 'lease agreement' in a summary that names no
\* landlord, tenant, rent or premises becomes 'loan sanction letter'
FixedDocumentType(summary) ==
  IF /\ Contains(summary.l, "lease agreement")
     /\ ~\E word \in {"landlord", "tenant", "rent", "premises"} : Contains(summary.l, word)
  THEN SubI(summary, LeaseAgreement, "loan sanction letter").o
  ELSE summary.o

\* json.loads on the texts that the service of the model answers with: the
\* value of a text that is a JSON object, and a failure for any other text
JsonTexts == <<
  <<"{\"overall_risk_level\": \"HIGH\", \"overall_summary\": \"This lease agreement binds the tenant.\", \"clause_risks\": []}",
    [overall_risk_level |-> "HIGH",
     overall_summary |-> "This lease agreement binds the tenant.",
     clause_risks |-> <<>>]>>,
  <<"{\"overall_summary\": \"This Lease Agreement sets a fixed fee.\"}",
    [overall_summary |-> "This Lease Agreement sets a fixed fee."]>>,
  <<"{\"overall_risk_level\": \"moderate\", \"clause_risks\": []}",
    [overall_risk_level |-> "moderate", clause_risks |-> <<>>]>> >>

JsonLoads(json_str) ==
  IF \E i \in 1..Len(JsonTexts) : JsonTexts[i][1] = json_str
  THEN [ok |-> TRUE,
        value |-> JsonTexts[CHOOSE i \in 1..Len(JsonTexts) : JsonTexts[i][1] = json_str][2]]
  ELSE [ok |-> FALSE, value |-> None]

\* line 271: json_str.replace('\\n', ' ')
Unescaped(json_str) ==
  SubFrom(json_str, FindIter(json_str, Grams(json_str), <<Lit("\\n")>>), 1, 0, " ")

\* lines 274-281: the parsed object, its overall_summary fixed
Postprocessed(parsed) ==
  IF "overall_summary" \in DOMAIN parsed
  THEN [parsed EXCEPT !.overall_summary = FixedDocumentType(Both(parsed.overall_summary))]
  ELSE parsed

\* r'overall.*risk.*level.*?([A-Z]+)' with re.IGNORECASE; the second
\* pattern ends at the first character of the group
RiskLevel ==
  <<Lit("overall"), DotStar, Lit("risk"), DotStar, Lit("level"),
    RepLazy("dot", 0, Unbounded), Rep("letter", 1, Unbounded)>>

RiskLevelOpening ==
  <<Lit("overall"), DotStar, Lit("risk"), DotStar, Lit("level"),
    RepLazy("dot", 0, Unbounded), Rep("letter", 1, 1)>>

\* lines 297-299: risk_level_match.group(1).upper(), or 'MEDIUM'
RecoveredLevel(tx, whole, opening) ==
  IF whole[1] = -1 THEN "MEDIUM"
  ELSE Upper(Slice(tx.o, opening[2] - 1, whole[2]))

\* lines 311-319
ParsedClauseRisk(clause_data) ==
  [clause_type |-> clause_data.type,
   risk_level |-> Upper(clause_data.risk_level),
   risk_explanation |-> "Found " \o Str(clause_data.count) \o " instance(s) of "
                        \o clause_data.description,
   concerns |-> <<>>,
   recommendations |-> "Review these clauses carefully with legal counsel."]

\* lines 289-321: the assessment recovered from a text that is no JSON
Recovered(tx, extracted_clauses) ==
  [overall_risk_level |-> RecoveredLevel(tx, Search(tx.l, tx.g, RiskLevel),
                                         Search(tx.l, tx.g, RiskLevelOpening)),
   overall_summary |-> FixedDocumentType(BSlice(tx, 0, 500)),
   clause_risks |-> [i \in 1..Len(extracted_clauses) |->
                       ParsedClauseRisk(extracted_clauses[i])],
   raw_analysis |-> tx.o]

\* lines 267-286: the object parsed from the match of r'\{.*\}'
Loaded(tx, extracted_clauses, loaded) ==
  IF loaded.ok THEN Postprocessed(loaded.value) ELSE Recovered(tx, extracted_clauses)

Parsed(tx, extracted_clauses, json_match) ==
  IF json_match[1] = -1 THEN Recovered(tx, extracted_clauses)
  ELSE Loaded(tx, extracted_clauses,
              JsonLoads(Unescaped(Slice(tx.o, json_match[1], json_match[2]))))

\* lines 252-321: parse_risk_analysis
ParseRiskAnalysis(analysis_text, extracted_clauses) ==
  Parsed(Both(analysis_text), extracted_clauses,
         Search(analysis_text, Grams(analysis_text), JsonObject))

\* A faulty variant of AnalyzeClauseRisks: the handler of lines 142-145 is
\* missing, what the failed call left is parsed.
AnalyzeUncaught(extracted_clauses, contract_text, client, reply) ==
  IF ~client THEN CreateBasicRiskAssessment(extracted_clauses)
  ELSE ParseRiskAnalysis(reply.content, extracted_clauses)

\* lines 71-145: analyze_clause_risks
AnalyzeClauseRisks(extracted_clauses, contract_text, client, reply) ==
  IF ~client THEN CreateBasicRiskAssessment(extracted_clauses)
  ELSE IF reply.raises THEN CreateBasicRiskAssessment(extracted_clauses)
  ELSE ParseRiskAnalysis(reply.content, extracted_clauses)

(***************************************************************************)
(* The inputs of the functions of ai_analyzer.py: clause texts, groups as   *)
(* extract_all_clauses builds them, and the answers of the service.         *)
(***************************************************************************)

\* the type, description and risk level of the categories of the catalog
\* that the groups of the inputs belong to, in the order of the catalog
CatalogEntries ==
  [i \in 1..Len(CLAUSE_PATTERNS) |->
     [type |-> CLAUSE_PATTERNS[i].type,
      description |-> CLAUSE_PATTERNS[i].description,
      risk_level |-> CLAUSE_PATTERNS[i].risk_level]]
  \o <<[type |-> "default_remedies",
       description |-> "Default, breach, and remedy provisions",
       risk_level |-> "high"],
      [type |-> "liability",
       description |-> "Liability limitation clauses",
       risk_level |-> "medium"],
      [type |-> "penal_interest",
       description |-> "Penal interest, penalty charges, and overdue/default charges",
       risk_level |-> "high"]>>

ClauseTexts == <<
  "The Tenant shall keep the premises clean and in good repair at all times during the term. Rent of $1,500 is due on the first day of each month. No pets.",
  "Late fee: 5% of rent applies after 10 days. The Landlord may also recover reasonable costs of collection from the Tenant in that case.",
  "Each party shall keep confidential all information received from the other party and shall use it only for the purposes of this Agreement.",
  "Rent is $500 per month, due on the 1st.",
  "Late fee: 5%.",
  "Pay $5 now. No pets here. Pay $5 now. No pets here. Pay $5 now. No pets here. Pay $5 now. No pets here. Pay $5 now. No pets here. Pay $5 now. No pets here. Pay $5 now. No pets here. Pay $5 now. No pets here. Pay $5 now. No pets here. ",
  "The Borrower owes a payment for each month of delay! Interest accrues on 12 march of every year until the Lender has been paid in full." >>

\* the instances of the group of each category of CatalogEntries
InstancesOf == <<
  <<[text |-> ClauseTexts[1], match |-> Slice(ClauseTexts[1], 0, 4), position |-> 40, article |-> "3"],
       [text |-> ClauseTexts[3], match |-> Slice(ClauseTexts[3], 0, 4), position |-> 900, article |-> None]>>,
  <<[text |-> ClauseTexts[3], match |-> Slice(ClauseTexts[3], 0, 4), position |-> 10, article |-> None]>>,
  <<[text |-> ClauseTexts[7], match |-> Slice(ClauseTexts[7], 0, 4), position |-> 300, article |-> None]>>,
  <<[text |-> ClauseTexts[3], match |-> Slice(ClauseTexts[3], 0, 4), position |-> 20, article |-> None]>>,
  <<[text |-> ClauseTexts[2], match |-> Slice(ClauseTexts[2], 0, 4), position |-> 5, article |-> "2"],
       [text |-> ClauseTexts[4], match |-> Slice(ClauseTexts[4], 0, 4), position |-> 410, article |-> None],
       [text |-> ClauseTexts[5], match |-> Slice(ClauseTexts[5], 0, 4), position |-> 820, article |-> None],
       [text |-> ClauseTexts[1], match |-> Slice(ClauseTexts[1], 0, 4), position |-> 1300, article |-> None]>>,
  <<[text |-> ClauseTexts[7], match |-> Slice(ClauseTexts[7], 0, 4), position |-> 77, article |-> None]>>,
  <<[text |-> ClauseTexts[6], match |-> Slice(ClauseTexts[6], 0, 4), position |-> 60, article |-> None]>>,
  <<[text |-> ClauseTexts[2], match |-> Slice(ClauseTexts[2], 0, 4), position |-> 500, article |-> "7"]>> >>

\* the group of the i-th category, as lines 690-696 build it
GroupOf(i) ==
  [type |-> CatalogEntries[i].type,
   description |-> CatalogEntries[i].description,
   risk_level |-> CatalogEntries[i].risk_level,
   clauses |-> InstancesOf[i],
   count |-> Len(InstancesOf[i])]

MaxGroups == 3

\* the lists of at most MaxGroups groups, in the order of the catalog
GroupLists ==
  {[k \in 1..Cardinality(chosen) |-> GroupOf(Ordered(chosen, TRUE)[k])] :
     chosen \in {c \in SUBSET (1..Len(CatalogEntries)) : Cardinality(c) <= MaxGroups}}

\* what the service does when it is asked for the summary of a clause
SummaryReplies == {
  Raises,
  Says("NONE"),
  Says(" \"None.\" "),
  Says("Nonexclusive licence fees are due within 30 days."),
  Says("The late fee is not specified in this clause."),
  Says("'The tenant pays rent of $1,500 each month.'"),
  Says("This clause does Not Mention any amount; details are not mentioned.") }

\* what the service does on the calls that add_clause_summaries makes
GroupSummaryReplies == {
  Raises,
  Says("NONE"),
  Says("The late fee is not specified in this clause."),
  Says("'The tenant pays rent of $1,500 each month.'") }

\* what the service does when it is asked for the risk analysis
RiskReplies == {
  Raises,
  Says("{\"overall_risk_level\": \"HIGH\", \"overall_summary\": \"This lease agreement binds the tenant.\", \"clause_risks\": []}"),
  Says("{\"overall_summary\": \"This Lease Agreement sets a fixed fee.\"}"),
  Says("{\"overall_risk_level\": \"moderate\", \"clause_risks\": []}"),
  Says("Overall risk level is high because of the indemnity."),
  Says("OVERALL RISK LEVEL: HIGH"),
  Says("The lease agreement looks fine to me."),
  Says("Here you go: {\"overall_risk_level\": \"HIGH\", \"overall_summary\": \"This lease agreement binds the tenant.\", \"clause_risks\": []} Thanks."),
  Says("{\"overall_risk_level\": \"HIGH\"") }

\* what the service does when it is asked for the summary of the contract
ContractSummaryReplies == {
  Raises,
  Says("  This is a lease agreement between the Landlord and the Tenant.\n"),
  Says("") }

(***************************************************************************)
(* State.  An invocation w of extract_all_clauses has its argument         *)
(* contract_text[w], its position pc[w] ("called", "loop", "done" or       *)
(* "raised") and its locals, locals[w]: the index idx of the category the  *)
(* loop over the catalog is at, the list extracted_clauses and, as         *)
(* history, seen: the candidates of every category processed so far with   *)
(* the verdicts of is_relevant_clause.  result[w] is what w returned.      *)
(* clause_patterns is the module-level catalog.  calls and returned are    *)
(* history: the number of calls made by w, and the pairs <<text, result>>  *)
(* of the calls that returned.                                             *)
(***************************************************************************)

VARIABLES clause_patterns, contract_text, pc, locals, result, calls, returned

\* A call of a function of ai_analyzer.py: request holds the function and
\* its arguments, service what get_openai_client() gave (client) and what
\* the service did on the calls made so far (replies), answer whether the
\* function has returned and with what value.
VARIABLES request, service, answer

\* The table of the contracts (models.py), contracts[id] for the ids given
\* out so far, and the response to the last request to the REST interface.
VARIABLES contracts, response

vars == <<clause_patterns, contract_text, pc, locals, result, calls, returned,
          request, service, answer, contracts, response>>

NoRequest ==
  [fn |-> "none", clause_text |-> "", clause_type |-> "", article_num |-> None,
   contract_text |-> "", extracted_clauses |-> <<>>]

NoService == [client |-> FALSE, replies |-> <<>>]

NoAnswer == [state |-> "none", value |-> None]

NoResponse ==
  [user |-> None, method |-> "none", id |-> 0, data |-> None, status |-> 0,
   body |-> None]

\* no call of ai_analyzer.py is in progress
AnalyzerIdle == request = NoRequest /\ service = NoService /\ answer = NoAnswer

\* no contract has been uploaded
ApiIdle == contracts = <<>> /\ response = NoResponse

Invocations == DOMAIN pc

\* A faulty variant of NewExtracted: the list of the previous call is kept.
KeptExtracted(w) == locals[w].extracted_clauses

\* line 649: extracted_clauses = []
NewExtracted(w) == <<>>

\* A faulty variant of Extracted: one list shared by the invocations.
SharedExtracted(w) == locals[1].extracted_clauses

\* the list that the invocation w appends to, lines 649 and 690
Extracted(w) == locals[w].extracted_clauses

Start(ws, texts) ==
  /\ clause_patterns = CLAUSE_PATTERNS
  /\ contract_text = texts
  /\ pc = [w \in ws |-> "called"]
  /\ locals = [w \in ws |-> [idx |-> 0, extracted_clauses |-> <<>>, seen |-> <<>>]]
  /\ result = [w \in ws |-> <<>>]
  /\ calls = [w \in ws |-> 1]
  /\ returned = {}

\* one call, on a document, the empty string, None or a bytes object
\* (a document is some sentences of the library, or the unbroken line)
Init ==
  /\ \/ \E order \in Orderings : Start({1}, [w \in {1} |-> Concat(order, 1)])
     \/ Start({1}, [w \in {1} |-> None])
     \/ Start({1}, [w \in {1} |-> Bytes])
     \/ Start({1}, [w \in {1} |-> Unbroken])
  /\ AnalyzerIdle
  /\ ApiIdle

\* two calls on two workers
InitWorkers ==
  /\ \E texts \in [{1, 2} -> PairDocs] : Start({1, 2}, texts)
  /\ AnalyzerIdle
  /\ ApiIdle

\* lines 645-649: the guard on the argument
Enter(w) ==
  /\ pc[w] = "called"
  /\ IF ~Truthy(contract_text[w])
     THEN /\ result' = [result EXCEPT ![w] = <<>>]
          /\ pc' = [pc EXCEPT ![w] = "done"]
          /\ returned' = returned \cup {<<contract_text[w], <<>> >>}
          /\ UNCHANGED locals
     ELSE /\ locals' = [locals EXCEPT ![w] =
                          [idx |-> 1, extracted_clauses |-> NewExtracted(w), seen |-> <<>>]]
          /\ pc' = [pc EXCEPT ![w] = "loop"]
          /\ UNCHANGED <<result, returned>>
  /\ UNCHANGED <<clause_patterns, contract_text, calls>>
  /\ UNCHANGED <<request, service, answer, contracts, response>>

\* A faulty variant of Appended: the group replaces the list.
Overwritten(w, clause_info, category) ==
  [idx |-> locals[w].idx + 1,
   extracted_clauses |-> category.groups,
   seen |-> Append(locals[w].seen,
                   [type |-> clause_info.type,
                    candidates |-> [i \in 1..Len(category.matches) |->
                                      [position |-> category.matches[i].position,
                                       relevant |-> category.relevant[i]]]])]

\* lines 653-696 for the category at idx: the locals after the iteration
Appended(w, clause_info, category) ==
  [idx |-> locals[w].idx + 1,
   extracted_clauses |-> Extracted(w) \o category.groups,
   seen |-> Append(locals[w].seen,
                   [type |-> clause_info.type,
                    candidates |-> [i \in 1..Len(category.matches) |->
                                      [position |-> category.matches[i].position,
                                       relevant |-> category.relevant[i]]]])]

Iterated(w) ==
  Appended(w, clause_patterns[locals[w].idx],
           Category(Both(contract_text[w]), clause_patterns[locals[w].idx]))

\* lines 652-696: one iteration of the loop over the catalog.  re.finditer
\* raises TypeError when the text is not a str; no handler encloses the
\* call, so the exception leaves extract_all_clauses.
ExtractCategory(w) ==
  /\ pc[w] = "loop"
  /\ locals[w].idx <= Len(clause_patterns)
  /\ IF contract_text[w] \in {None, Bytes}
     THEN /\ pc' = [pc EXCEPT ![w] = "raised"]
          /\ UNCHANGED locals
     ELSE /\ locals' = [locals EXCEPT ![w] = Iterated(w)]
          /\ UNCHANGED pc
  /\ UNCHANGED <<clause_patterns, contract_text, result, calls, returned>>
  /\ UNCHANGED <<request, service, answer, contracts, response>>

\* lines 698-700: return extracted_clauses
Return(w) ==
  /\ pc[w] = "loop"
  /\ locals[w].idx > Len(clause_patterns)
  /\ result' = [result EXCEPT ![w] = Extracted(w)]
  /\ pc' = [pc EXCEPT ![w] = "done"]
  /\ returned' = returned \cup {<<contract_text[w], Extracted(w)>>}
  /\ UNCHANGED <<clause_patterns, contract_text, locals, calls>>
  /\ UNCHANGED <<request, service, answer, contracts, response>>

\* the worker w calls extract_all_clauses again, on any document
CallAgain(w) ==
  /\ pc[w] = "done"
  /\ calls[w] < MaxCalls
  /\ \E d \in PairDocs : contract_text' = [contract_text EXCEPT ![w] = d]
  /\ pc' = [pc EXCEPT ![w] = "called"]
  /\ calls' = [calls EXCEPT ![w] = @ + 1]
  /\ UNCHANGED <<clause_patterns, locals, result, returned>>
  /\ UNCHANGED <<request, service, answer, contracts, response>>

Next ==
  \/ \E w \in Invocations : Enter(w)
  \/ \E w \in Invocations : ExtractCategory(w)
  \/ \E w \in Invocations : Return(w)

Spec == Init /\ [][Next]_vars

NextWorkers ==
  \/ \E w \in Invocations : Enter(w)
  \/ \E w \in Invocations : ExtractCategory(w)
  \/ \E w \in Invocations : Return(w)
  \/ \E w \in Invocations : CallAgain(w)

SpecWorkers == InitWorkers /\ [][NextWorkers]_vars

(***************************************************************************)
(* The calls of ai_analyzer.py, one function at a time.                    *)
(***************************************************************************)

MaxReplies == 1

\* the behaviours of the service on the calls of one function: none when
\* there is no client, else one reply for each of the first n calls
RepliesFor(client, replies, n) ==
  IF client THEN [1..n -> replies] ELSE {<<>>}

Call(fn, clause, document, groups) ==
  [fn |-> fn, clause_text |-> clause, clause_type |-> "payment",
   article_num |-> None, contract_text |-> document,
   extracted_clauses |-> groups]

\* a call of one of the functions, with or without a client
InitAnalyzer ==
  /\ Start({}, <<>>)
  /\ ApiIdle
  /\ \/ \E t \in 1..Len(ClauseTexts) :
          request = Call("summarize_clause_text", ClauseTexts[t], "", <<>>)
     \/ \E groups \in GroupLists :
          request = Call("add_clause_summaries", "", "", groups)
     \/ \E groups \in GroupLists, d \in PairDocs :
          request = Call("analyze_clause_risks", "", d, groups)
     \/ \E groups \in GroupLists, d \in PairDocs :
          request = Call("generate_contract_summary", "", d, groups)
     \/ \E groups \in GroupLists :
          request = Call("create_basic_risk_assessment", "", "", groups)
  /\ \E client \in BOOLEAN : service = [client |-> client, replies |-> <<>>]
  /\ answer = [state |-> "called", value |-> None]

\* the function returns value after the service behaved as replies
Answered(replies, value) ==
  /\ service' = [service EXCEPT !.replies = replies]
  /\ answer' = [state |-> "returned", value |-> value]
  /\ UNCHANGED <<clause_patterns, contract_text, pc, locals, result, calls, returned>>
  /\ UNCHANGED <<request, contracts, response>>

\* lines 497-640
SummarizeClause ==
  /\ request.fn = "summarize_clause_text" /\ answer.state = "called"
  /\ \E replies \in RepliesFor(service.client, SummaryReplies, 1) :
       Answered(replies,
                SummarizeClauseText(request.clause_text, request.clause_type,
                                    request.article_num, service.client,
                                    IF service.client THEN replies[1] ELSE Raises))

\* add_clause_summaries returns enhanced_clauses after the service behaved
\* as replies; argument is the list it was given, as the call leaves it
Summarized(replies, enhanced_clauses) ==
  /\ service' = [service EXCEPT !.replies = replies]
  /\ answer' = [state |-> "returned", value |-> enhanced_clauses,
                argument |-> ArgumentAfter(request.extracted_clauses, enhanced_clauses)]
  /\ UNCHANGED <<clause_patterns, contract_text, pc, locals, result, calls, returned>>
  /\ UNCHANGED <<request, contracts, response>>

\* lines 643-688
AddSummaries ==
  /\ request.fn = "add_clause_summaries" /\ answer.state = "called"
  /\ \E replies \in RepliesFor(service.client, GroupSummaryReplies, MaxReplies) :
       Summarized(replies,
                  AddClauseSummaries(request.extracted_clauses, service.client,
                                     IF service.client THEN replies ELSE <<Raises>>))

\* lines 71-145
AnalyzeRisks ==
  /\ request.fn = "analyze_clause_risks" /\ answer.state = "called"
  /\ \E replies \in RepliesFor(service.client, RiskReplies, 1) :
       Answered(replies,
                AnalyzeClauseRisks(request.extracted_clauses, request.contract_text,
                                   service.client,
                                   IF service.client THEN replies[1] ELSE Raises))

\* lines 388-483
GenerateSummary ==
  /\ request.fn = "generate_contract_summary" /\ answer.state = "called"
  /\ \E replies \in RepliesFor(service.client, ContractSummaryReplies, 1) :
       Answered(replies,
                GenerateContractSummary(request.contract_text, request.extracted_clauses,
                                        service.client,
                                        IF service.client THEN replies[1] ELSE Raises))

\* lines 324-385, called on its own
CreateBasic ==
  /\ request.fn = "create_basic_risk_assessment" /\ answer.state = "called"
  /\ Answered(<<>>, CreateBasicRiskAssessment(request.extracted_clauses))

NextAnalyzer ==
  \/ SummarizeClause
  \/ AddSummaries
  \/ AnalyzeRisks
  \/ GenerateSummary
  \/ CreateBasic

SpecAnalyzer == InitAnalyzer /\ [][NextAnalyzer]_vars

(***************************************************************************)
(* The helper functions of clause_extractor.py, called on their own.       *)
(***************************************************************************)

MaxClauses == 3

\* the instances given to prioritize_and_limit_clauses: article numbers of
\* one and two digits, equal article numbers at different positions, texts
\* of equal and of different lengths
Instances == {
  [text |-> "Rent is due on the first day of each month.", match |-> "due", position |-> 700, article |-> "2"],
  [text |-> "A late fee applies after ten days.", match |-> "late fee", position |-> 100, article |-> "10"],
  [text |-> "Payment is made by bank transfer only.", match |-> "Payment", position |-> 300, article |-> "2"],
  [text |-> "Each invoice is payable within thirty days of its date.", match |-> "invoice", position |-> 50, article |-> None],
  [text |-> "Fees are fixed.", match |-> "Fees", position |-> 900, article |-> None],
  [text |-> "The deposit is returned within thirty days of the end.", match |-> "deposit", position |-> 1200, article |-> None] }

\* the lists of at most n different instances
RECURSIVE ListsOf(_, _)
ListsOf(pool, n) ==
  IF n = 0 THEN {<<>>}
  ELSE ListsOf(pool, n - 1)
       \cup {Append(l, c) : l \in {k \in ListsOf(pool, n - 1) : Len(k) = n - 1},
                            c \in pool}

Distinct(l) == \A i, j \in 1..Len(l) : i # j => l[i] # l[j]

\* the snippets given to is_relevant_clause: warranty and payment vocabulary
\* together and apart, addendum vocabulary with and without an amount, a
\* duration, one of the words of line 762 and more than 200 characters, and
\* a snippet shorter than 50 characters
Snippets == {
  "The warranty on the equipment remains in force even when a late fee has been charged.",
  "The Seller does warrant the goods, and a late fee applies to every invoice paid late.",
  "We guarantee the workmanship for one year; any late fee is waived during that time.",
  "A late fee of five percent is charged on every payment that is overdue by ten days.",
  "The warranty covers all parts and labour for a period of twelve months from delivery.",
  "Residents must bring valet trash to the door by eight in the evening on weekdays.",
  "The valet trash service carries a fee that the owner sets for every resident.",
  "The valet trash service costs $25 and is billed together with the other charges.",
  "The pool area is closed for 30 days each winter while the yearly upkeep is carried out.",
  "Bicycle storage: each bicycle rider pays $10 for a tag shown on the frame.",
  "A parking permit must be shown in the window of every vehicle that is left in the car park. Vehicles without one may be towed away by the owner of the building at any hour, and the owner of the vehicle is told where it was taken and how it can be collected.",
  "Valet trash on Mondays." }

\* the categories given to is_relevant_clause: one without a rule of its
\* own, and the two whose rules are those of lines 815-871
SnippetTypes == {"termination", "payment", "warranty"}

InitCalls ==
  /\ Start({}, <<>>)
  /\ ApiIdle
  /\ service = NoService
  /\ answer = [state |-> "called", value |-> None]
  /\ \/ \E clauses \in {l \in ListsOf(Instances, MaxClauses) : Distinct(l)},
           clause_type \in {"payment", "indemnity"} :
             request = [fn |-> "prioritize_and_limit_clauses", clauses |-> clauses,
                        clause_type |-> clause_type]
     \/ \E text \in Snippets, clause_type \in SnippetTypes :
             request = [fn |-> "is_relevant_clause", match |-> [text |-> text],
                        clause_type |-> clause_type]

\* the function returns value
ReturnValue(value) ==
  /\ answer' = [state |-> "returned", value |-> value]
  /\ UNCHANGED <<clause_patterns, contract_text, pc, locals, result, calls, returned>>
  /\ UNCHANGED <<request, service, contracts, response>>

\* lines 973-1028
PrioritizeAndLimit ==
  /\ request.fn = "prioritize_and_limit_clauses" /\ answer.state = "called"
  /\ ReturnValue(PrioritizeAndLimitClauses(request.clauses, request.clause_type))

\* lines 703-950
IsRelevant ==
  /\ request.fn = "is_relevant_clause" /\ answer.state = "called"
  /\ ReturnValue(IsRelevantClause(request.match, request.clause_type))

NextCalls ==
  \/ PrioritizeAndLimit
  \/ IsRelevant

SpecCalls == InitCalls /\ [][NextCalls]_vars

(***************************************************************************)
(* serializers.py and api_views.py: the REST interface.  contracts is the  *)
(* table of the Contract model: contracts[i] is the row of id i, of which  *)
(* the model keeps uploaded_by, title, file_type and status; present is    *)
(* FALSE once the row is deleted.  response is the last response sent,     *)
(* with the request that it answers: the authenticated user, the method,   *)
(* the id of the URL and the data sent.  The response to a POST shows, of  *)
(* the results of the analysis, the overall_risk_level of                  *)
(* analysis_metadata.                                                      *)
(***************************************************************************)

Users == {"alice", "bob"}

MaxContracts == 2

\* the files of the POST requests: name is the name of the file, stored is
\* whether the storage gives a path on the disk for it, text is what
\* extract_text_from_file reads from it ("" for a file it cannot read)
Uploads == {
  [file |-> TRUE, name |-> "lease.pdf", stored |-> TRUE,
   text |-> "The Buyer shall keep confidential every late fee that the Seller charges under this order.\n"],
  [file |-> TRUE, name |-> "SCAN.PDF", stored |-> TRUE, text |-> ""],
  [file |-> TRUE, name |-> "notes.txt", stored |-> TRUE, text |-> ""],
  [file |-> TRUE, name |-> "order.docx", stored |-> FALSE, text |-> ""],
  [file |-> FALSE, name |-> "", stored |-> FALSE, text |-> ""] }

\* what the service does during one POST request: on the calls of
\* add_clause_summaries, of analyze_clause_risks and of
\* generate_contract_summary
ServiceBehaviours == {
  [client |-> FALSE, clauses |-> <<Raises>>, risk |-> Raises, summary |-> Raises],
  [client |-> TRUE,
   clauses |-> <<Says("'The tenant pays rent of $1,500 each month.'")>>,
   risk |-> Says("{\"overall_risk_level\": \"HIGH\", \"overall_summary\": \"This lease agreement binds the tenant.\", \"clause_risks\": []}"),
   summary |-> Says("  This is a lease agreement between the Landlord and the Tenant.\n")],
  [client |-> TRUE,
   clauses |-> <<Says("NONE")>>,
   risk |-> Says("{\"overall_summary\": \"This Lease Agreement sets a fixed fee.\"}"),
   summary |-> Says("")] }

\* the data of the PATCH requests: status is a writable field
Patches == {[status |-> "processing"]}

\* serializers.py line 90: the part of the name after its last '.'
RECURSIVE AfterLastDot(_, _)
AfterLastDot(name, i) ==
  IF i = 0 THEN name
  ELSE IF SubSeq(name, i, i) = "." THEN SubSeq(name, i + 1, Len(name))
  ELSE AfterLastDot(name, i - 1)

\* serializers.py lines 90-94; file_type keeps its default otherwise
FileTypeOf(file_extension) ==
  IF file_extension = "pdf" THEN "pdf"
  ELSE IF file_extension = "docx" THEN "docx"
  ELSE ""

FileType(name) == FileTypeOf(AfterLastDot(Lower(name), Len(name)))

\* serializers.py lines 153-171, on the clauses with their summaries
AnalysisResults(extracted_text, extracted_clauses, behaviour) ==
  [extracted_clauses |-> extracted_clauses,
   risk_assessment |->
     AnalyzeClauseRisks(extracted_clauses, extracted_text, behaviour.client,
                        behaviour.risk),
   analysis_summary |->
     GenerateContractSummary(extracted_text, extracted_clauses,
                             behaviour.client, behaviour.summary)]

\* serializers.py lines 145-157
Analysis(extracted_text, behaviour) ==
  AnalysisResults(extracted_text,
                  AddClauseSummaries(ExtractAllClauses(extracted_text),
                                     behaviour.client, behaviour.clauses),
                  behaviour)

\* serializers.py line 170: risk_assessment.get('overall_risk_level', 'UNKNOWN')
OverallRiskLevel(risk_assessment) ==
  IF "overall_risk_level" \in DOMAIN risk_assessment
  THEN risk_assessment.overall_risk_level
  ELSE "UNKNOWN"

\* the overall_risk_level that the analysis of a text stores
AnalyzedLevel(extracted_text, behaviour) ==
  OverallRiskLevel(Analysis(extracted_text, behaviour).risk_assessment)

\* a row of the table
Row(user, title, file_type, status, level) ==
  [uploaded_by |-> user, title |-> title, file_type |-> file_type,
   status |-> status, present |-> TRUE, overall_risk_level |-> level]

\* the fields of a row that the table keeps
Stored(row) ==
  [f \in {"uploaded_by", "title", "file_type", "status", "present"} |-> row[f]]

\* a deleted row
Deleted ==
  [uploaded_by |-> None, title |-> "", file_type |-> "", status |-> "",
   present |-> FALSE]

\* A faulty variant of CreateContract: a file with text is left in the
\* status set by line 137.
CreateUnfinished(user, title, upload, file_type, level) ==
  IF file_type \in {"pdf", "docx"} /\ upload.stored /\ upload.text # ""
  THEN Row(user, title, file_type, "processing", "")
  ELSE Row(user, title, file_type, IF file_type = "" \/ upload.stored THEN "uploaded" ELSE "error", "")

\* serializers.py lines 66-194: the row that create leaves and returns.
\* The path of line 114 raises for a file the storage holds elsewhere
\* (lines 187-192); the calls of lines 145-157 return for every str, so the
\* handler of lines 178-182 is not entered; level is the overall_risk_level
\* that the analysis of the text gives.
CreateContract(user, title, upload, file_type, level) ==
  IF file_type \notin {"pdf", "docx"} THEN Row(user, title, file_type, "uploaded", "")
  ELSE IF ~upload.stored THEN Row(user, title, file_type, "error", "")
  ELSE IF upload.text = "" THEN Row(user, title, file_type, "uploaded", "")
  ELSE Row(user, title, file_type, "analyzed", level)

\* A faulty variant of GetQueryset: the rows of every user.
AllContracts(user) ==
  Ordered({i \in 1..Len(contracts) : contracts[i].present}, FALSE)

\* api_views.py lines 25-29: the ids of the rows of the user, the latest
\* upload first
GetQueryset(user) ==
  Ordered({i \in 1..Len(contracts) :
             contracts[i].present /\ contracts[i].uploaded_by = user}, FALSE)

\* get_object: the row of the id among those of the queryset
GetObject(id, queryset) == \E k \in 1..Len(queryset) : queryset[k] = id

\* ContractListSerializer, lines 197-216
ListItem(id) ==
  [id |-> id, title |-> contracts[id].title, file_type |-> contracts[id].file_type,
   status |-> contracts[id].status,
   uploaded_by_username |-> contracts[id].uploaded_by]

Listed(queryset) == [k \in 1..Len(queryset) |-> ListItem(queryset[k])]

Respond(user, method, id, data, status, body) ==
  /\ response' = [user |-> user, method |-> method, id |-> id, data |-> data,
                  status |-> status, body |-> body]
  /\ UNCHANGED <<clause_patterns, contract_text, pc, locals, result, calls, returned>>
  /\ UNCHANGED <<request, service, answer>>

InitApi == Start({}, <<>>) /\ AnalyzerIdle /\ ApiIdle

\* POST /api/contracts/: 400 without a file, else the row that
\* ContractSerializer.create returns
Created(user, upload, row) ==
  IF ~upload.file
  THEN contracts' = contracts /\ Respond(user, "create", 0, upload, 400, None)
  ELSE /\ contracts' = Append(contracts, Stored(row))
       /\ Respond(user, "create", Len(contracts) + 1, upload, 201, row)

Create(upload, level) ==
  /\ Len(contracts) < MaxContracts
  /\ \E user \in Users :
       Created(user, upload,
               CreateContract(user, "Lease", upload, FileType(upload.name), level))

\* GET /api/contracts/
List(user) ==
  /\ contracts' = contracts
  /\ Respond(user, "list", 0, None, 200, Listed(GetQueryset(user)))

\* GET /api/contracts/{id}/
Retrieve(user, id) ==
  /\ contracts' = contracts
  /\ IF GetObject(id, GetQueryset(user))
     THEN Respond(user, "retrieve", id, None, 200, contracts[id])
     ELSE Respond(user, "retrieve", id, None, 404, None)

\* PATCH /api/contracts/{id}/ with a status
Updated(id, data) == [contracts EXCEPT ![id].status = data.status]

Update(user, id) ==
  \E data \in Patches :
    IF GetObject(id, GetQueryset(user))
    THEN /\ contracts' = Updated(id, data)
         /\ Respond(user, "update", id, data, 200, Updated(id, data)[id])
    ELSE /\ contracts' = contracts
         /\ Respond(user, "update", id, data, 404, None)

\* DELETE /api/contracts/{id}/
Destroy(user, id) ==
  IF GetObject(id, GetQueryset(user))
  THEN /\ contracts' = [contracts EXCEPT ![id] = Deleted]
       /\ Respond(user, "destroy", id, None, 204, None)
  ELSE /\ contracts' = contracts
       /\ Respond(user, "destroy", id, None, 404, None)

\* api_views.py lines 46-58
MarkAnalyzed(user, id) ==
  IF GetObject(id, GetQueryset(user))
  THEN /\ contracts' = [contracts EXCEPT ![id].status = "analyzed"]
       /\ Respond(user, "mark_analyzed", id, None, 200,
                  [contracts[id] EXCEPT !.status = "analyzed"])
  ELSE /\ contracts' = contracts
       /\ Respond(user, "mark_analyzed", id, None, 404, None)

NextApi ==
  \/ \E upload \in Uploads, behaviour \in ServiceBehaviours :
       Create(upload, AnalyzedLevel(upload.text, behaviour))
  \/ \E user \in Users : List(user)
  \/ \E user \in Users, id \in 1..MaxContracts : Retrieve(user, id)
  \/ \E user \in Users, id \in 1..MaxContracts : Update(user, id)
  \/ \E user \in Users, id \in 1..MaxContracts : Destroy(user, id)
  \/ \E user \in Users, id \in 1..MaxContracts : MarkAnalyzed(user, id)

SpecApi == InitApi /\ [][NextApi]_vars

(***************************************************************************)
(* tasks.py and admin.py: the processing of a contract in the background.  *)
(* The table contracts holds the row of one upload, as                     *)
(* ContractSerializer.create left it, with the fields that this part       *)
(* keeps: title, description, file (whether the storage gives a path for   *)
(* it and the text that extract_text_from_file reads from it), file_type,  *)
(* status, analyzed_at (None or Now), extracted_text, extracted_clauses    *)
(* (None, "clauses" for the list that extract_all_clauses gave,            *)
(* "summarized" for the one that add_clause_summaries gave) and analysis   *)
(* (whether risk_assessment, analysis_summary and analysis_metadata are    *)
(* stored).  request is the call process_contract_task(contract_id); pc[1] *)
(* is the position of the task: "queued", "text", "clauses", "summaries",  *)
(* "analysis" (the step that comes next), "retry" (a retry is scheduled),  *)
(* "returned" or "failed" (the exception was raised to the worker).        *)
(* locals[1] holds contract, the instance that line 36 loaded, retries,    *)
(* the value of self.request.retries, and, as history, countdowns: the     *)
(* delays of the retries scheduled so far.  Meanwhile the owner sends      *)
(* requests to the REST interface and the staff saves the row in the       *)
(* admin site.                                                             *)
(***************************************************************************)

\* tasks.py line 19: max_retries=3
max_retries == 3

\* the retries after which the model stops following a task
RetryCap == 5

\* timezone.now()
Now == "<now>"

Owner == "alice"

\* models.py lines 16-21
Statuses == {"uploaded", "processing", "analyzed", "error"}

\* the row that ContractSerializer.create leaves for an upload
\* (serializers.py lines 78-194: analyzed_at is set on line 173 alone)
Uploaded(upload, row) ==
  [uploaded_by |-> row.uploaded_by, title |-> row.title, description |-> "",
   file |-> [stored |-> upload.stored, text |-> upload.text],
   file_type |-> row.file_type, status |-> row.status,
   analyzed_at |-> IF row.status = "analyzed" THEN Now ELSE None,
   extracted_text |-> IF upload.stored /\ upload.text # "" THEN upload.text ELSE None,
   extracted_clauses |-> IF row.status = "analyzed" THEN "summarized" ELSE None,
   analysis |-> row.status = "analyzed",
   present |-> TRUE]

\* the data of the PUT and PATCH requests: title and description, or status
Changes == {
  [title |-> "Sublease", description |-> "Revised"],
  [status |-> "processing"],
  [status |-> "analyzed"] }

\* no instance is loaded yet, nothing is returned yet
NoInstance == [present |-> FALSE]

NoResult == [status |-> "none"]

\* a task is queued for the contract of an upload, or for an id that the
\* table does not hold
InitTask ==
  /\ clause_patterns = CLAUSE_PATTERNS
  /\ contract_text = <<>> /\ calls = <<>> /\ returned = {}
  /\ service = NoService /\ answer = NoAnswer /\ response = NoResponse
  /\ \E upload \in {u \in Uploads : u.file} :
       contracts = <<Uploaded(upload, CreateContract(Owner, "Lease", upload,
                                                     FileType(upload.name), ""))>>
  /\ \E contract_id \in 1..2 :
       request = [fn |-> "process_contract_task", contract_id |-> contract_id]
  /\ pc = <<"queued">>
  /\ locals = <<[contract |-> NoInstance, retries |-> 0, countdowns |-> <<>>]>>
  /\ result = <<NoResult>>

\* Contract.objects.get(id=id) finds a row
Exists(id) == id \in 1..Len(contracts) /\ contracts[id].present

\* instance.save(): every field of the instance is written to the row
Save(table, id, instance) == [table EXCEPT ![id] = instance]

\* instance.save(update_fields=fields)
SaveFields(table, id, instance, fields) ==
  [table EXCEPT ![id] = [f \in DOMAIN @ |-> IF f \in fields THEN instance[f] ELSE @[f]]]

\* what the task leaves alone
TaskFrame ==
  UNCHANGED <<clause_patterns, contract_text, calls, returned, request, service,
              answer, response>>

\* the task goes on to the step position with the instance contract
GoesOn(position, contract) ==
  /\ pc' = [pc EXCEPT ![1] = position]
  /\ locals' = [locals EXCEPT ![1].contract = contract]
  /\ result' = result
  /\ TaskFrame

\* the task returns value
Returns(value) ==
  /\ pc' = [pc EXCEPT ![1] = "returned"]
  /\ result' = [result EXCEPT ![1] = value]
  /\ locals' = locals
  /\ TaskFrame

\* A faulty variant of ShouldRetry: the task is retried whatever the number
\* of retries made.
AlwaysRetry(retries) == TRUE

\* self.retry of line 180 under max_retries=3 of line 19: the task is
\* scheduled again unless max_retries retries were made
ShouldRetry(retries) == retries < max_retries

\* line 180: countdown=60
Countdown(retries) == 60

\* lines 167-180, reached from the table that the handler of the failed
\* step left: the row is loaded again, its status is set to 'error', and
\* the task is scheduled again or the exception is raised to the worker
Retry(table, id) ==
  /\ contracts' = IF id \in 1..Len(table) /\ table[id].present
                  THEN Save(table, id, [table[id] EXCEPT !.status = "error"])
                  ELSE table
  /\ IF ShouldRetry(locals[1].retries) /\ locals[1].retries < RetryCap
     THEN /\ pc' = [pc EXCEPT ![1] = "retry"]
          /\ locals' = [locals EXCEPT
                          ![1].retries = @ + 1,
                          ![1].countdowns = Append(@, Countdown(locals[1].retries))]
     ELSE /\ pc' = [pc EXCEPT ![1] = "failed"]
          /\ locals' = locals
  /\ result' = result
  /\ TaskFrame

\* lines 34-52 and 160-165: the task starts, or starts again
Begin ==
  /\ pc[1] \in {"queued", "retry"}
  /\ IF ~Exists(request.contract_id)
     THEN /\ contracts' = contracts
          /\ Returns([status |-> "error", message |-> "not found"])
     ELSE IF contracts[request.contract_id].file_type \notin {"pdf", "docx"}
     THEN /\ contracts' = Save(contracts, request.contract_id,
                               [contracts[request.contract_id] EXCEPT !.status = "error"])
          /\ Returns([status |-> "error", message |-> "No file or unsupported file type"])
     ELSE /\ contracts' = Save(contracts, request.contract_id,
                               [contracts[request.contract_id] EXCEPT !.status = "processing"])
          /\ GoesOn("text", [contracts[request.contract_id] EXCEPT !.status = "processing"])

\* lines 54-79: the path or the extraction raises, or gives no text, or
\* gives the text of the file
ExtractText ==
  /\ pc[1] = "text"
  /\ \E raises \in BOOLEAN :
       IF raises \/ ~locals[1].contract.file.stored
       THEN Retry(Save(contracts, request.contract_id,
                       [locals[1].contract EXCEPT !.status = "error"]),
                  request.contract_id)
       ELSE IF locals[1].contract.file.text = ""
       THEN /\ contracts' = Save(contracts, request.contract_id,
                                 [locals[1].contract EXCEPT !.status = "error"])
            /\ Returns([status |-> "error", message |-> "No text could be extracted from file"])
       ELSE /\ contracts' =
                 SaveFields(contracts, request.contract_id,
                            [locals[1].contract EXCEPT
                               !.extracted_text = locals[1].contract.file.text],
                            {"extracted_text"})
            /\ GoesOn("clauses",
                      [locals[1].contract EXCEPT
                         !.extracted_text = locals[1].contract.file.text])

\* lines 81-94
ExtractClauses ==
  /\ pc[1] = "clauses"
  /\ \E raises \in BOOLEAN :
       IF raises
       THEN Retry(contracts, request.contract_id)
       ELSE /\ contracts' =
                 SaveFields(contracts, request.contract_id,
                            [locals[1].contract EXCEPT !.extracted_clauses = "clauses"],
                            {"extracted_clauses"})
            /\ GoesOn("summaries",
                      [locals[1].contract EXCEPT !.extracted_clauses = "clauses"])

\* lines 96-110: a failure is logged and the task goes on
Summarize ==
  /\ pc[1] = "summaries"
  /\ \E raises \in BOOLEAN :
       IF raises
       THEN contracts' = contracts /\ GoesOn("analysis", locals[1].contract)
       ELSE /\ contracts' =
                 SaveFields(contracts, request.contract_id,
                            [locals[1].contract EXCEPT !.extracted_clauses = "summarized"],
                            {"extracted_clauses"})
            /\ GoesOn("analysis",
                      [locals[1].contract EXCEPT !.extracted_clauses = "summarized"])

\* lines 112-158
Analyze ==
  /\ pc[1] = "analysis"
  /\ \E raises \in BOOLEAN :
       IF raises
       THEN Retry(Save(contracts, request.contract_id,
                       [locals[1].contract EXCEPT !.status = "error"]),
                  request.contract_id)
       ELSE /\ contracts' =
                 Save(contracts, request.contract_id,
                      [locals[1].contract EXCEPT !.analysis = TRUE,
                                                 !.status = "analyzed",
                                                 !.analyzed_at = Now])
            /\ Returns([status |-> "success", contract_id |-> request.contract_id])

\* a step of the task
Process == Begin \/ ExtractText \/ ExtractClauses \/ Summarize \/ Analyze

\* the row with the fields of data set (ModelSerializer.update)
Changed(row, data) == [f \in DOMAIN row |-> IF f \in DOMAIN data THEN data[f] ELSE row[f]]

\* PUT and PATCH /api/contracts/{id}/ (api_views.py lines 10-44 with the
\* fields of serializers.py lines 27-64)
UpdateContract(user, id) ==
  \E data \in Changes :
    IF Exists(id) /\ contracts[id].uploaded_by = user
    THEN /\ contracts' = Save(contracts, id, Changed(contracts[id], data))
         /\ Respond(user, "update", id, data, 200, None)
    ELSE /\ contracts' = contracts
         /\ Respond(user, "update", id, data, 404, None)

\* api_views.py lines 46-58
MarkAnalyzedNow(user, id) ==
  IF Exists(id) /\ contracts[id].uploaded_by = user
  THEN /\ contracts' = Save(contracts, id, [contracts[id] EXCEPT !.status = "analyzed",
                                                                 !.analyzed_at = Now])
       /\ Respond(user, "mark_analyzed", id, None, 200, None)
  ELSE /\ contracts' = contracts
       /\ Respond(user, "mark_analyzed", id, None, 404, None)

\* admin.py lines 80-93, for the object obj of the form
SaveModel(id, obj) ==
  /\ Exists(id)
  /\ contracts' =
       Save(contracts, id,
            IF obj.status = "analyzed" /\ obj.analyzed_at = None
            THEN [obj EXCEPT !.analyzed_at = Now]
            ELSE IF obj.status # "analyzed" /\ obj.analyzed_at # None
            THEN [obj EXCEPT !.analyzed_at = None]
            ELSE obj)
  /\ UNCHANGED <<clause_patterns, contract_text, pc, locals, result, calls, returned>>
  /\ UNCHANGED <<request, service, answer, response>>

NextTask ==
  \/ Begin
  \/ ExtractText
  \/ ExtractClauses
  \/ Summarize
  \/ Analyze
  \/ \E id \in 1..2 : UpdateContract(Owner, id)
  \/ \E id \in 1..2 : MarkAnalyzedNow(Owner, id)
  \/ \E status \in Statuses, analyzed_at \in {None, Now} :
       SaveModel(1, [contracts[1] EXCEPT !.status = status, !.analyzed_at = analyzed_at])

SpecTask == InitTask /\ [][NextTask]_vars

\* the worker runs the task that is queued or scheduled
SpecTaskFair == SpecTask /\ WF_vars(Process)

(***************************************************************************)
(* Properties                                                              *)
(***************************************************************************)

\* the groups an invocation returned
Returned(w) == IF pc[w] = "done" THEN result[w] ELSE <<>>

\* the groups of type clause_type among those w returned
GroupsOfType(w, clause_type) ==
  {i \in 1..Len(Returned(w)) : Returned(w)[i].type = clause_type}

\* the positions of the candidates of the c-th category that
\* is_relevant_clause accepted, in the invocation w
RelevantPositions(w, c) ==
  {locals[w].seen[c].candidates[i].position :
     i \in {j \in 1..Len(locals[w].seen[c].candidates) :
              locals[w].seen[c].candidates[j].relevant}}

\* C1: every group returned by extract_all_clauses has count = len(clauses)
\* and count >= 1.
C1_CountIsLength ==
  \A w \in Invocations : \A i \in 1..Len(Returned(w)) :
     /\ Returned(w)[i].count = Len(Returned(w)[i].clauses)
     /\ Returned(w)[i].count >= 1

\* a call that returned a group of two instances or more
C1_Witness ==
  \E w \in Invocations : \E i \in 1..Len(Returned(w)) :
     Returned(w)[i].count >= 2 /\ Len(Returned(w)[i].clauses) >= 2

\* C2: every group returned holds at most cap(category) instances, the value
\* of the limits table, and 3 for a category the table does not list.
C2_AtMostCap ==
  \A w \in Invocations : \A i \in 1..Len(Returned(w)) :
     Len(Returned(w)[i].clauses) <=
       (IF Returned(w)[i].type \in DOMAIN limits THEN limits[Returned(w)[i].type] ELSE 3)

\* a call in which a listed category (indemnity, 2) and an unlisted one
\* (auto_renewal, 3) both had more relevant candidates far apart than their
\* cap, and returned groups at the cap
C2_Witness ==
  \E w \in Invocations :
     /\ pc[w] = "done" /\ Len(locals[w].seen) = Len(CLAUSE_PATTERNS)
     /\ Cardinality(RelevantPositions(w, 1)) >= 4
     /\ \E i \in GroupsOfType(w, "auto_renewal") : Len(Returned(w)[i].clauses) = 3
     /\ Cardinality(RelevantPositions(w, 2)) >= 3
     /\ \E i \in GroupsOfType(w, "indemnity") : Len(Returned(w)[i].clauses) = 2

\* C3: in every group returned, no two distinct instances have word-set
\* Jaccard similarity >= 0.7, and no two have positions less than 200 apart.
C3_NoDuplicates ==
  \A w \in Invocations : \A g \in 1..Len(Returned(w)) :
     \A i, j \in 1..Len(Returned(w)[g].clauses) :
        i # j =>
          /\ ~TextsSimilar(Returned(w)[g].clauses[i].text, Returned(w)[g].clauses[j].text, 7)
          /\ Abs(Returned(w)[g].clauses[i].position - Returned(w)[g].clauses[j].position) >= 200

\* a call in which two relevant candidates of a category were more than 200
\* apart and yet only one instance was returned (the texts were similar)
C3_Witness ==
  \E w \in Invocations :
     /\ pc[w] = "done" /\ Len(locals[w].seen) = Len(CLAUSE_PATTERNS)
     /\ \E c \in 1..Len(CLAUSE_PATTERNS) :
          /\ \E p, q \in RelevantPositions(w, c) : Abs(p - q) >= 200
          /\ \E i \in GroupsOfType(w, CLAUSE_PATTERNS[c].type) :
               Len(Returned(w)[i].clauses) = 1

\* C4: extract_all_clauses called with the empty string or with None returns
\* the empty list and raises no exception.
C4_EmptyOrNone ==
  \A w \in Invocations :
     contract_text[w] \in {"", None} =>
       /\ pc[w] \in {"called", "done"}
       /\ pc[w] = "done" => result[w] = <<>>

\* the call on None has returned
C4_Witness ==
  \E w \in Invocations : contract_text[w] = None /\ pc[w] = "done" /\ result[w] = <<>>

\* C5: for every category C of the catalog, the output holds exactly one
\* group of type C if some match of C's keyword patterns gave a snippet that
\* is_relevant_clause accepted for C, and no group of type C otherwise.
C5_GroupIffRelevant ==
  \A w \in Invocations :
     (pc[w] = "done" /\ Truthy(contract_text[w])) =>
       \A c \in 1..Len(CLAUSE_PATTERNS) :
          Cardinality(GroupsOfType(w, CLAUSE_PATTERNS[c].type)) =
            (IF RelevantPositions(w, c) # {} THEN 1 ELSE 0)

\* a call that returned a payment group and an auto_renewal group
C5_Witness ==
  \E w \in Invocations :
     /\ pc[w] = "done" /\ Len(locals[w].seen) = Len(CLAUSE_PATTERNS)
     /\ GroupsOfType(w, "payment") # {}
     /\ GroupsOfType(w, "auto_renewal") # {}

\* the words of a termination sentence
TerminationWordings == <<"terminate", "termination", "terminated", "cancelled", "expire">>

\* the line of text around the position p has at least 50 characters
LongLine(text, p) ==
  First(p, Len(text) - 1, LAMBDA i : At(text, i) = "\n")
    - Last(0, p - 1, LAMBDA i : At(text, i) = "\n") - 1 >= 50

\* text holds a sentence of at least 50 characters with one of the words
WordedTermination(tx) ==
  \E k \in 1..Len(TerminationWordings) :
     \E p \in Starts(tx.l, tx.g, <<WB, Lit(TerminationWordings[k]), WB>>) :
        LongLine(tx.o, p)

\* C6: a document that holds a termination sentence of at least 50
\* characters, worded with 'terminate', 'termination', 'terminated',
\* 'cancelled' or 'expire', yields a group of type 'termination' with at
\* least one instance.
C6_TerminationGroup ==
  \A w \in Invocations :
     (pc[w] = "done" /\ Truthy(contract_text[w])
        /\ WordedTermination(Both(contract_text[w]))) =>
       \E i \in GroupsOfType(w, "termination") : Returned(w)[i].count >= 1

\* C7: in every group returned, every instance that carries an article
\* number comes before every instance that carries none.
C7_ArticleFirst ==
  \A w \in Invocations : \A g \in 1..Len(Returned(w)) :
     \A i, j \in 1..Len(Returned(w)[g].clauses) :
        (Truthy(Returned(w)[g].clauses[j].article)
           /\ ~Truthy(Returned(w)[g].clauses[i].article)) => j < i

\* a group whose first instance carries an article number and stands later
\* in the document than its second instance, which carries none
C7_Witness ==
  \E w \in Invocations : \E g \in 1..Len(Returned(w)) :
     /\ Len(Returned(w)[g].clauses) >= 2
     /\ Truthy(Returned(w)[g].clauses[1].article)
     /\ ~Truthy(Returned(w)[g].clauses[2].article)
     /\ Returned(w)[g].clauses[1].position > Returned(w)[g].clauses[2].position

\* C8: if the candidates of a category that pass the relevance filter all
\* lie less than 200 characters from one another, and one passes at least,
\* the group of the category holds exactly 1 instance.
C8_OneInstance ==
  \A w \in Invocations :
     (pc[w] = "done" /\ Truthy(contract_text[w])) =>
       \A c \in 1..Len(CLAUSE_PATTERNS) :
          (/\ RelevantPositions(w, c) # {}
           /\ \A p, q \in RelevantPositions(w, c) : Abs(p - q) < 200) =>
            /\ GroupsOfType(w, CLAUSE_PATTERNS[c].type) # {}
            /\ \A i \in GroupsOfType(w, CLAUSE_PATTERNS[c].type) :
                 Len(Returned(w)[i].clauses) = 1 /\ Returned(w)[i].count = 1

\* a call in which two candidates or more of a category, at different
\* positions less than 200 apart, passed the filter
C8_Witness ==
  \E w \in Invocations :
     /\ pc[w] = "done" /\ Len(locals[w].seen) = Len(CLAUSE_PATTERNS)
     /\ \E c \in 1..Len(CLAUSE_PATTERNS) :
          /\ Cardinality(RelevantPositions(w, c)) >= 2
          /\ \A p, q \in RelevantPositions(w, c) : Abs(p - q) < 200
          /\ \E i \in GroupsOfType(w, CLAUSE_PATTERNS[c].type) :
               Len(Returned(w)[i].clauses) = 1

\* C9: the calls on one document text return identical group lists, whatever
\* calls were made in between, and the catalog is never modified.
C9_SameTextSameResult ==
  /\ \A a, b \in returned : a[1] = b[1] => a[2] = b[2]
  /\ clause_patterns = CLAUSE_PATTERNS

\* a worker whose second call returned groups for the text that the other
\* worker's call had returned groups for
C9_Witness ==
  \E v, w \in Invocations :
     /\ v # w
     /\ calls[w] = 2 /\ pc[w] = "done" /\ pc[v] = "done"
     /\ contract_text[v] = contract_text[w]
     /\ result[w] # <<>> /\ result[v] = result[w]

\* what extract_all_clauses returns for each document when run alone
Alone == [d \in PairDocs |-> ExtractAllClauses(d)]

\* C10: two invocations on different documents, interleaved in any way,
\* each return the result they return when run alone.
C10_AsAlone ==
  \A w \in Invocations : pc[w] = "done" => result[w] = Alone[contract_text[w]]

\* two first calls on different documents that both returned groups
C10_Witness ==
  \E v, w \in Invocations :
     /\ calls[v] = 1 /\ calls[w] = 1
     /\ pc[v] = "done" /\ pc[w] = "done"
     /\ contract_text[v] # contract_text[w]
     /\ result[v] # <<>> /\ result[w] # <<>> /\ result[v] # result[w]

C12_TextAtMost1200 ==
  \A w \in Invocations : \A i \in 1..Len(Returned(w)) :
     \A j \in 1..Len(Returned(w)[i].clauses) :
        Len(Returned(w)[i].clauses[j].text) <= 1200

\* a call of fn has returned
Done(fn) == request.fn = fn /\ answer.state = "returned"

\* the service was called and answered with a content string
Replied == service.client /\ service.replies # <<>> /\ ~service.replies[1].raises

\* the service was called and raised
Failed == service.client /\ service.replies # <<>> /\ service.replies[1].raises

\* the answer of the service is the sentinel
Sentinel == Replied /\ Lower(StripOf(service.replies[1].content, "space")) = "none"

\* the answer of the service is worded as a disclaimer
Disclaimer ==
  /\ Replied
  /\ \E phrase \in {"not specified", "not mentioned"} :
        Contains(Lower(service.replies[1].content), phrase)

\* numeric or date evidence: a date and an amount both hold a digit
Evident(text) == \E i \in 0..(Len(text) - 1) : IsDigit(At(text, i))

\* C13: when the service answers with the sentinel 'none' and the clause
\* text has no numeric or date evidence, summarize_clause_text returns None.
C13_SentinelGivesNone ==
  (Done("summarize_clause_text") /\ Sentinel /\ ~Evident(request.clause_text))
    => answer.value = None

\* the sentinel was the answer for a clause without a digit, and None was
\* returned
C13_Witness ==
  /\ Done("summarize_clause_text") /\ Sentinel
  /\ ~Evident(request.clause_text) /\ Len(request.clause_text) > 100
  /\ answer.value = None

\* the sentences of a clause text, stripped
StrippedSentences(text) ==
  [i \in 1..Len(Sentences(Both(text))) |-> BStrip(Sentences(Both(text))[i]).o]

\* the first sentence of the text that holds evidence, with or without the
\* full stop that ended it
FirstEvident(text) ==
  LET sents == StrippedSentences(text)
      first == CHOOSE i \in 1..Len(sents) :
                 Evident(sents[i]) /\ \A j \in 1..(i - 1) : ~Evident(sents[j])
  IN  {sents[first], sents[first] \o "."}

\* C14 as stated: on the sentinel or on a disclaimer, the first sentence with
\* numeric or date evidence is returned when the clause text has such
\* evidence, and None only when it has none.
C14_EvidenceSentence ==
  (Done("summarize_clause_text") /\ (Sentinel \/ Disclaimer)) =>
     IF Evident(request.clause_text)
     THEN answer.value \in FirstEvident(request.clause_text)
     ELSE answer.value = None

\* a sentence that line 617 accepts: longer than 30 characters, and holding
\* a digit or one of the words amount, fee, payment, or longer than 50
Accepted(sent) ==
  /\ Len(sent) > 30
  /\ \/ Evident(sent)
     \/ \E word \in {"amount", "fee", "payment"} : Contains(Lower(sent), word)
     \/ Len(sent) > 50

\* what a disclaimer leads to: the first accepted sentence of a clause text
\* of more than 100 characters with evidence, else None
AfterDisclaimer(text, sents) ==
  IF /\ Len(BStrip(Both(text)).o) > 100
     /\ Evident(text)
     /\ \E i \in 1..Len(sents) : Accepted(sents[i])
  THEN sents[CHOOSE i \in 1..Len(sents) :
               Accepted(sents[i]) /\ \A j \in 1..(i - 1) : ~Accepted(sents[j])] \o "."
  ELSE None

\* C14 amended: on the sentinel None is returned whatever the clause text
\* holds; on a disclaimer the first accepted sentence of the clause text is
\* returned, with a full stop, when the text is longer than 100 characters
\* and has evidence, and None otherwise.
C14_SentinelNoneDisclaimerSentence ==
  /\ (Done("summarize_clause_text") /\ Sentinel) => answer.value = None
  /\ (Done("summarize_clause_text") /\ Disclaimer) =>
        answer.value = AfterDisclaimer(request.clause_text,
                                       StrippedSentences(request.clause_text))

\* a disclaimer for a clause with an amount in its second sentence: the
\* first sentence, which holds no evidence, was returned
C14_Witness ==
  /\ Done("summarize_clause_text") /\ Disclaimer
  /\ Evident(request.clause_text)
  /\ answer.value # None /\ ~Evident(answer.value)

\* lines 631-640 as a statement: the first sentence of more than 20
\* characters, when it holds a digit or has more than 50 characters
LocalSentence(sents) ==
  LET long == {i \in 1..Len(sents) : Len(sents[i]) > 20}
      first == CHOOSE i \in long : \A j \in long : i <= j
  IN  IF long # {} /\ (Evident(sents[first]) \/ Len(sents[first]) > 50)
      THEN sents[first] \o "."
      ELSE None

\* C15: when the service raises during summarize_clause_text,
\* analyze_clause_risks or generate_contract_summary, the function returns
\* its local fallback result: the exception does not reach the caller.
C15_FailureCaught ==
  /\ answer.state # "raised"
  /\ (Done("summarize_clause_text") /\ Failed) =>
        answer.value = LocalSentence(StrippedSentences(request.clause_text))
  /\ (Done("analyze_clause_risks") /\ Failed) =>
        answer.value = CreateBasicRiskAssessment(request.extracted_clauses)
  /\ (Done("generate_contract_summary") /\ Failed) =>
        answer.value = GenerateBasicSummary(request.extracted_clauses)

\* the service raised during the risk analysis of three groups, and the
\* basic assessment of the three was returned
C15_Witness ==
  /\ Done("analyze_clause_risks") /\ Failed
  /\ Len(request.extracted_clauses) = 3
  /\ Len(answer.value.clause_risks) = 3
  /\ "raw_analysis" \notin DOMAIN answer.value

\* C16: add_clause_summaries returns every group with all its instances in
\* their order; only the first three may have a summary, the others keep
\* their text and have none, and count is the number of instances.
C16_AllInstancesKept ==
  Done("add_clause_summaries") =>
    /\ Len(answer.value) = Len(request.extracted_clauses)
    /\ \A i \in 1..Len(answer.value) :
         /\ Len(answer.value[i].clauses) = Len(request.extracted_clauses[i].clauses)
         /\ answer.value[i].count = Len(answer.value[i].clauses)
         /\ \A j \in 1..Len(answer.value[i].clauses) :
              /\ answer.value[i].clauses[j].text = request.extracted_clauses[i].clauses[j].text
              /\ j > 3 => "summary" \notin DOMAIN answer.value[i].clauses[j]

\* the risk level of a category in the catalog
CatalogRisk(clause_type) ==
  CatalogEntries[CHOOSE i \in 1..Len(CatalogEntries) :
                   CatalogEntries[i].type = clause_type].risk_level

\* the groups of categories of the given risk level
GroupsAtRisk(groups, level) ==
  {i \in 1..Len(groups) : CatalogRisk(groups[i].type) = level}

\* C17: create_basic_risk_assessment returns HIGH exactly when a group of a
\* category of catalog risk level 'high' is present, otherwise MEDIUM
\* exactly when more than 2 groups of medium-risk categories are present,
\* otherwise LOW.
C17_LevelFollowsCatalog ==
  Done("create_basic_risk_assessment") =>
    answer.value.overall_risk_level =
      (IF GroupsAtRisk(request.extracted_clauses, "high") # {} THEN "HIGH"
       ELSE IF Cardinality(GroupsAtRisk(request.extracted_clauses, "medium")) > 2
       THEN "MEDIUM"
       ELSE "LOW")

\* C18: whatever the service does, analyze_clause_risks returns a structure
\* with overall_risk_level in {LOW, MEDIUM, HIGH, CRITICAL}, an
\* overall_summary and a clause_risks sequence.
C18_WellFormed ==
  Done("analyze_clause_risks") =>
    /\ {"overall_risk_level", "overall_summary", "clause_risks"} \subseteq DOMAIN answer.value
    /\ answer.value.overall_risk_level \in {"LOW", "MEDIUM", "HIGH", "CRITICAL"}

\* the last response answers a POST that created a contract
Posted == response.method = "create" /\ response.status = 201

OnAnothers ==
  /\ response'.method \in {"retrieve", "update", "destroy", "mark_analyzed"}
  /\ response'.id \in 1..Len(contracts)
  /\ contracts[response'.id].present
  /\ contracts[response'.id].uploaded_by # response'.user

\* C20: whatever requests were made before, a request on a contract of
\* another user is answered 404, the contracts of the other users are left
\* as they are, and a list holds only contracts of the user who asks.
C20_OnlyOwnContracts ==
  [][/\ OnAnothers => response'.status = 404
     /\ \A i \in 1..Len(contracts) :
          (contracts[i].present /\ contracts[i].uploaded_by # response'.user)
            => contracts'[i] = contracts[i]
     /\ response'.method = "list" =>
          \A k \in 1..Len(response'.body) :
             contracts[response'.body[k].id].uploaded_by = response'.user
     /\ (response'.method \in {"retrieve", "update", "mark_analyzed"}
         /\ response'.status = 200) =>
          contracts[response'.id].uploaded_by = response'.user]_vars

\* a user asked to delete a contract of the other user, after it had been
\* modified by its owner: 404, and the contract is there
C20_Witness ==
  /\ response.method = "destroy" /\ response.status = 404
  /\ response.id \in 1..Len(contracts)
  /\ contracts[response.id].present
  /\ contracts[response.id].uploaded_by # response.user
  /\ contracts[response.id].status = "processing"

\* the sentence boundaries among the context_chars characters before pos
BoundariesBefore(text, pos) ==
  {i \in Max2(0, pos - ContextChars)..(pos - 1) : At(text, i) \in {".", "!", "\n"}}

\* an ARTICLE header among the context_chars characters before pos
ArticleBefore(text, pos) ==
  \E i \in Max2(1, pos - ContextChars)..(pos - 1) :
     Lower(Slice(text, i - 1, i + 6)) = "article"

\* the candidates that the invocation w has seen, with their positions
PositionsSeen(w) ==
  IF pc[w] \in {"loop", "done"}
  THEN UNION {{locals[w].seen[k].candidates[j].position :
                 j \in 1..Len(locals[w].seen[k].candidates)} :
              k \in 1..Len(locals[w].seen)}
  ELSE {}

\* C21: when the context_chars characters before a match hold several
\* sentence boundaries and no ARTICLE header, the snippet starts right after
\* the boundary nearest to the match: no boundary lies between the start of
\* the snippet and the match.
C21_StartsAfterNearestBoundary ==
  \A w \in Invocations : \A pos \in PositionsSeen(w) :
     (/\ Cardinality(BoundariesBefore(contract_text[w], pos)) >= 2
      /\ ~ArticleBefore(contract_text[w], pos))
       => /\ SentenceStart(Both(contract_text[w]), pos, ContextChars) - 1
               \in BoundariesBefore(contract_text[w], pos)
          /\ \A i \in BoundariesBefore(contract_text[w], pos) :
               i < SentenceStart(Both(contract_text[w]), pos, ContextChars)

\* the category that the invocation w processed last
LastCategory(w) == clause_patterns[locals[w].idx - 1]

\* the invocation w has processed a category of its document
Processed(w) ==
  /\ pc[w] \in {"loop", "done"}
  /\ locals[w].idx > 1

\* b repeats a: less than 200 characters away, or 7 of 10 words shared
Repeats(a, b) ==
  \/ Abs(a.position - b.position) < 200
  \/ TextsSimilar(a.text, b.text, 7)

\* the candidates among the first n that are accepted: the relevant ones
\* that repeat no candidate accepted before them
AcceptedAmong(matches, relevant, n) ==
  LET acc[i \in 0..n] ==
        IF i = 0 THEN {}
        ELSE IF relevant[i] /\ ~\E j \in acc[i - 1] : Repeats(matches[j], matches[i])
             THEN acc[i - 1] \cup {i}
             ELSE acc[i - 1]
  IN  acc[n]

\* after each candidate, found_clauses is the accepted candidates so far,
\* as they were found and in the order they were found
FirstWins(matches, relevant) ==
  \A n \in 0..Len(matches) :
     Collect(<<>>, SubSeq(matches, 1, n), relevant, 1)
       = Select(matches, AcceptedAmong(matches, relevant, n), 1)

\* the candidates of each keyword are in the order of the document
Ascending(clauses) ==
  \A i, j \in 1..Len(clauses) : i < j => clauses[i].position < clauses[j].position

InDocumentOrder(tx, keywords) ==
  \A k \in 1..Len(keywords) :
     Ascending(ExtractClauseContext(tx, Pattern(keywords[k]), ContextChars))

FirstWinsIn(tx, clause_info, category) ==
  /\ InDocumentOrder(tx, clause_info.keywords)
  /\ FirstWins(category.matches, category.relevant)

\* C22: within a category the candidates are taken keyword by keyword and,
\* for a keyword, in the order of the document; a relevant candidate is
\* dropped exactly when it repeats (Jaccard >= 0.7 or less than 200
\* characters away) a candidate accepted before it, and no later candidate
\* replaces, removes or alters an accepted one.
C22_FirstAcceptedWins ==
  \A w \in Invocations :
     Processed(w) =>
       FirstWinsIn(Both(contract_text[w]), LastCategory(w),
                   Category(Both(contract_text[w]), LastCategory(w)))

\* two candidates were accepted and a relevant one was dropped
DroppedOne(matches, relevant) ==
  /\ Len(Collect(<<>>, matches, relevant, 1)) >= 2
  /\ Cardinality({i \in 1..Len(matches) : relevant[i]})
       > Len(Collect(<<>>, matches, relevant, 1))

DroppedOneIn(category) == DroppedOne(category.matches, category.relevant)

C22_Witness ==
  \E w \in Invocations :
     /\ Processed(w)
     /\ DroppedOneIn(Category(Both(contract_text[w]), LastCategory(w)))

\* C23: in the list that prioritize_and_limit_clauses returns, the
\* instances with an article number are in ascending order of the number,
\* those of one number in ascending order of position, and the instances
\* without an article number are in non-increasing order of text length.
C23_ArticleOrderThenLength ==
  Done("prioritize_and_limit_clauses") =>
    \A i, j \in 1..Len(answer.value) :
       i < j =>
         /\ (answer.value[i].article # None /\ answer.value[j].article # None) =>
              \/ ParseInt(answer.value[i].article) < ParseInt(answer.value[j].article)
              \/ /\ ParseInt(answer.value[i].article) = ParseInt(answer.value[j].article)
                 /\ answer.value[i].position <= answer.value[j].position
         /\ (answer.value[i].article = None /\ answer.value[j].article = None) =>
              Len(answer.value[i].text) >= Len(answer.value[j].text)

\* article 10 was given before the two instances of article 2, the later
\* of the two first: the result has article 2 at 300, article 2 at 700,
\* then article 10
C23_Witness ==
  /\ Done("prioritize_and_limit_clauses")
  /\ Len(request.clauses) = 3 /\ Len(answer.value) = 3
  /\ request.clauses[1].article = "10" /\ request.clauses[2].position = 700
  /\ answer.value[1].position = 300 /\ answer.value[2].position = 700
  /\ answer.value[3].article = "10"

(***************************************************************************)
(* C24: for the category 'warranty', payment vocabulary in a snippet that  *)
(* also holds the word 'warranty', 'warranties' or 'guarantee' does not    *)
(* make is_relevant_clause reject the snippet: such a snippet, when no     *)
(* other rule rejects it, is accepted.                                     *)
(***************************************************************************)

\* the late-fee and payment vocabulary of the claim
PaymentVocabulary(tx) ==
  FoundAny(tx.l, tx.g, << <<Lit("late"), Ws1, Lit("fee")>>, <<Lit("reversal"), Ws1, Lit("fee")>>,
                    <<Lit("nsf"), Ws1, Lit("charge")>>, K2("payment", "due"),
                    K1("invoice") >>)

\* the words 'warranty', 'warranties' and 'guarantee'
WarrantyVocabulary(tx) ==
  FoundAny(tx.l, tx.g, << <<WB, Lit("warranty"), WB>>, <<WB, Lit("warranties"), WB>>,
                    <<WB, Lit("guarantee"), WB>> >>)

\* the rule of trash containers and fines of lines 855-860
TrashFineRule(tx) ==
  FoundAny(tx.l, tx.g, << <<Lit("container"), Rep("s", 0, 1), DotStar, Lit("trash")>>,
                    K2("trash", "container"), K3("fine", "per", "bag"),
                    K2("violation", "fine") >>)

WarrantyWithPayment(tx) ==
  /\ PaymentVocabulary(tx) /\ WarrantyVocabulary(tx) /\ ~TrashFineRule(tx)
  /\ RelevantText(tx, "termination")

C24_WarrantyWordKeeps ==
  (Done("is_relevant_clause") /\ request.clause_type = "warranty"
     /\ WarrantyWithPayment(Both(request.match.text)))
    => answer.value = TRUE

(***************************************************************************)
(* C25: a snippet that matches the addendum vocabulary is accepted by      *)
(* is_relevant_clause only if it carries a monetary amount, a number       *)
(* followed by day, month or year, or is longer than 200 characters.       *)
(***************************************************************************)

AddendumVocabulary(tx) == FoundAny(tx.l, tx.g, AddendumKeywords)

MonetaryAmount(tx) == Found(tx.l, tx.g, DollarAmount)

ExplicitDuration(tx) == FoundAny(tx.l, tx.g, CountedPeriod)

\* one of the words that line 762 takes for core information
CoreWord(tx) ==
  \E w \in {"amount", "fee", "deposit", "rent", "term", "obligation", "liability"} :
    Found(tx.l, tx.g, K1(w))

\* the narrowest addendum terms of line 768
NarrowestTerms(tx) ==
  \/ Found(tx.l, tx.g, K1("bicycle"))
  \/ Found(tx.l, tx.g, K2("trash", "container"))

\* a financial or liability term of line 773
ImpactTerm(tx) ==
  \/ MonetaryAmount(tx)
  \/ \E w \in {"liability", "damage", "responsible", "obligation"} : Found(tx.l, tx.g, K1(w))

AcceptedAddendum(tx) ==
  /\ Done("is_relevant_clause") /\ AddendumVocabulary(tx) /\ answer.value = TRUE

C25_AddendumNeedsSubstance ==
  AcceptedAddendum(Both(request.match.text))
    => \/ MonetaryAmount(Both(request.match.text))
       \/ ExplicitDuration(Both(request.match.text))
       \/ Len(request.match.text) > 200

(***************************************************************************)
(* C25, as the code has it: an accepted addendum snippet carries a         *)
(* monetary amount, one of the words amount, fee, deposit, rent, term,     *)
(* obligation, liability, a number followed by day, month or year, or is   *)
(* longer than 200 characters; and when it names a bicycle or a trash      *)
(* container it also carries a monetary amount or one of the words         *)
(* liability, damage, responsible, obligation and is longer than 100       *)
(* characters.                                                             *)
(***************************************************************************)

Substantive(tx, text) ==
  /\ \/ MonetaryAmount(tx) \/ CoreWord(tx) \/ ExplicitDuration(tx) \/ Len(text) > 200
  /\ NarrowestTerms(tx) => (ImpactTerm(tx) /\ Len(text) > 100)

C25_AddendumNeedsCoreInfo ==
  AcceptedAddendum(Both(request.match.text))
    => Substantive(Both(request.match.text), request.match.text)

\* an addendum snippet is accepted for one of its words alone
C25_Witness ==
  /\ AcceptedAddendum(Both(request.match.text))
  /\ CoreWord(Both(request.match.text))
  /\ ~MonetaryAmount(Both(request.match.text))
  /\ ~ExplicitDuration(Both(request.match.text))
  /\ Len(request.match.text) <= 200

(***************************************************************************)
(* C26: when process_contract_task fails and is retried, the delay before  *)
(* each retry grows with the number of attempts already made: every delay  *)
(* is longer than the one before it, which any exponential growth implies. *)
(***************************************************************************)

\* the task of the model, once queued
Task == request.fn = "process_contract_task"

C26_DelayGrows ==
  Task => \A n \in 2..Len(locals[1].countdowns) :
            locals[1].countdowns[n] > locals[1].countdowns[n - 1]

(***************************************************************************)
(* C27: every execution of process_contract_task for an existing contract  *)
(* stops after at most 3 retries (4 attempts), and whenever an attempt     *)
(* ends, by return or by error, the status of the contract is 'analyzed'   *)
(* or 'error', never 'processing'.                                         *)
(***************************************************************************)

\* the task is about a contract that the table holds
ForExisting == Task /\ Exists(request.contract_id)

\* the task has stopped: it returned, or its exception reached the worker
Stopped == pc[1] \in {"returned", "failed"}

\* a step of the task that ends an attempt
AttemptEnds == Process /\ pc'[1] \in {"retry", "returned", "failed"}

C27_StopsWithFinalStatus ==
  /\ [](ForExisting => locals[1].retries <= max_retries)
  /\ [][(ForExisting /\ AttemptEnds)
          => contracts'[request.contract_id].status \in {"analyzed", "error"}]_vars
  /\ (ForExisting => <>Stopped)

\* the fourth attempt failed as the three before it, and the exception was
\* raised to the worker with the contract in the status 'error'
C27_Witness ==
  /\ ForExisting /\ pc[1] = "failed"
  /\ locals[1].retries = max_retries
  /\ contracts[request.contract_id].status = "error"

(***************************************************************************)
(* C28: the processing of a contract changes only its analysis fields: no  *)
(* step of process_contract_task changes the title or the description of   *)
(* the row, so that what the owner set through the API while the task was  *)
(* running is still in place when it finishes.                             *)
(***************************************************************************)

C28_TitleAndDescriptionKept ==
  [][(ForExisting /\ Process)
       => /\ contracts'[request.contract_id].title = contracts[request.contract_id].title
          /\ contracts'[request.contract_id].description =
               contracts[request.contract_id].description]_vars

(***************************************************************************)
(* C29: add_clause_summaries leaves its argument unchanged: after the      *)
(* call every group given has the clauses list it had and every instance   *)
(* given has the fields it had, none with a summary; the summaries are on  *)
(* the instances of the returned list alone.                               *)
(***************************************************************************)

\* the instances of the groups of a list
InstancesIn(groups) ==
  UNION {{groups[i].clauses[j] : j \in 1..Len(groups[i].clauses)} : i \in 1..Len(groups)}

C29_ArgumentUnchanged ==
  Done("add_clause_summaries") =>
    /\ answer.argument = request.extracted_clauses
    /\ \A instance \in InstancesIn(answer.argument) : "summary" \notin DOMAIN instance

\* a call that returned an instance with a summary
C29_Witness ==
  /\ Done("add_clause_summaries")
  /\ \E instance \in InstancesIn(answer.value) : "summary" \in DOMAIN instance
  /\ \A instance \in InstancesIn(request.extracted_clauses) : "summary" \notin DOMAIN instance

(***************************************************************************)
(* C30: in every state reached through the API (create, update, partial    *)
(* update, mark_analyzed), the admin save and the processing task, a       *)
(* contract has analyzed_at set if and only if its status is 'analyzed'.   *)
(***************************************************************************)

C30_AnalyzedAtIffAnalyzed ==
  Task => \A id \in 1..Len(contracts) :
            contracts[id].present =>
              (contracts[id].analyzed_at # None <=> contracts[id].status = "analyzed")

====
